---------------------------- MODULE Spec2Model ----------------------------
(***************************************************************************)
(* A model of the kube-compare core: struct traversal (unstructured.go),   *)
(* the missing-required report (parsing.go) and the correlator chain       *)
(* (correlator.go).  Each area has its own specification over the shared   *)
(* variables; the variables of the other areas stay at their idle values.  *)
(***************************************************************************)
EXTENDS Integers, Sequences, FiniteSets, TLC

VARIABLES
    obj,        \* the document handed to RemoveNestedField / NestedField
    before,     \* the document as it was before the last call
    fields,     \* the path (fields ...string) of the last call
    got,        \* what the last NestedField call returned
    toOmit,     \* the ordered omission path list applied to obj
    first,      \* the document after the first omission pass
    tpc,        \* position of the traversal driver
    parts,              \* Reference.Parts
    matchedTemplates,   \* the template paths whose entry in the matched map is true
    partReports,        \* what Part.getMissingCRs returned for each part, in order
    missingCRs,         \* the map Reference.getMissingCRs returned
    missingCount,       \* the count Reference.getMissingCRs returned
    mpc,                \* position of the summary driver
    correlator,             \* the constructed correlator chain
    errsToIgnore,           \* MetricsCorrelatorDecorator.errsToIgnore
    UnMatchedCRs,           \* MetricsCorrelatorDecorator.UnMatchedCRs
    unMatchedLock,          \* holder of unMatchedLock, 0 when free
    MatchedTemplatesNames,  \* keys of MetricsCorrelatorDecorator.MatchedTemplatesNames
    matchedLock,            \* holder of matchedLock, 0 when free
    workers,                \* per worker: its Match call's position and locals
    matchLog,               \* the resources matched so far, in call order
    results,                \* per resource, what its last Match returned
    declGroups,     \* the field groups as declared, handed to NewGroupCorrelator
    declObjects,     \* the templates handed to NewGroupCorrelator
    group,          \* the GroupCorrelator it returned
    hits,           \* per resource, what GroupCorrelator.Match returned
    pathStr,        \* the path string handed to NewPath
    splitRes,       \* what splitFields returned for it
    ppc,            \* position of the path driver
    yamlOk,         \* whether the reference descriptor parsed
    userItems,      \* fieldsToOmit.items as the descriptor wrote it
    userDefaultKey, \* fieldsToOmit.config.defaultKey as the descriptor wrote it
    Items,          \* FieldsToOmit.Items
    DefaultKey,     \* FieldsToOmit.Config.DefaultKey
    processedItems, \* the processed paths per key
    loadErr,        \* whether getReference returned an error
    rpc,            \* position of the reference loader
    override,       \* the UserOverride that Apply is called on
    resource,       \* the resource handed to Apply
    curPatch,       \* patch of the applyPatch call in progress
    curType,        \* patchType of the applyPatch call in progress
    rendered,       \* what the executed template unmarshalled to
    modified,       \* the document applyPatch returned
    applyErr,       \* whether applyPatch returned an error
    returned,       \* the resource Apply returned
    opc,            \* position of the Apply call
    omitRefs,       \* config.fieldsToOmitRefs of the template asked
    activeOmit,     \* what FeildsToOmit returned for it
    userPairs,      \* the matchPairs handed to NewExactMatchCorrelator
    userTemplates,  \* the templates handed to NewExactMatchCorrelator
    exact,          \* the ExactMatchCorrelator it returned, or its error
    exactHits,      \* per resource, what ExactMatchCorrelator.Match returned
    crLeft,         \* one resource
    crRight,        \* another resource
    keyLeft,        \* apiKindNamespaceName of the one
    keyRight,       \* apiKindNamespaceName of the other
    hashFields,     \* the field group of a group hash function
    hashLeft,       \* what the hash function returned for the one
    hashRight,      \* what the hash function returned for the other
    kpc,            \* position of the key driver
    dataLoaded,     \* model.data.loaded: per entry, whether its values decode
    dataAccepted,   \* model.data.accepted
    dataIndex,      \* model.data.index
    dataDiff,       \* model.data.diff: the entry it was built from, and whether edited
    focused,        \* editPatchArea.Focused()
    showPatch,      \* model.showPatch
    mErr,           \* whether model.err is set
    epc             \* position of the editor program

travVars == <<obj, before, fields, got, toOmit, first, tpc>>
missVars == <<parts, matchedTemplates, partReports, missingCRs, missingCount, mpc>>

corrVars == <<correlator, errsToIgnore, UnMatchedCRs, unMatchedLock,
              MatchedTemplatesNames, matchedLock, workers, matchLog, results>>

grpVars == <<declGroups, declObjects, group, hits>>

\* The variables of the areas added after the first three.
pathVars == <<pathStr, splitRes, ppc>>
refVars == <<yamlOk, userItems, userDefaultKey, Items, DefaultKey, processedItems,
             loadErr, rpc>>
ovrVars == <<override, resource, curPatch, curType, rendered, modified, applyErr,
             returned, opc>>
cfgVars == <<omitRefs, activeOmit>>
\* The variables of the areas added last.
exVars == <<userPairs, userTemplates, exact, exactHits>>
keyVars == <<crLeft, crRight, keyLeft, keyRight, hashFields, hashLeft, hashRight, kpc>>
edVars == <<dataLoaded, dataAccepted, dataIndex, dataDiff, focused, showPatch, mErr, epc>>
lateVars == <<cfgVars, exVars, keyVars, edVars>>
extVars == <<grpVars, pathVars, refVars, ovrVars, lateVars>>

vars == <<travVars, missVars, corrVars, extVars>>

\* The variables outside each area: they keep their idle values while a
\* specification of that area runs.
OutsideTrav == <<missVars, corrVars, extVars>>
OutsideMiss == <<travVars, corrVars, extVars>>
OutsideCorr == <<travVars, missVars, extVars>>

(***************************************************************************)
(* Bounds of the model.                                                    *)
(***************************************************************************)
MaxSeqLen == 2      \* longest sequence in a generated document
MaxPathLen == 3     \* longest path handed to a single call
MaxPaths == 2       \* longest omission path list
MaxComps == 2       \* most components in a part
MaxWorkers == 2     \* workers calling the decorator's Match concurrently
MaxJoin == 2        \* most errors joined into one error
MaxCalls == 3       \* Match calls made on one correlator chain
MaxGroups == 3      \* most field groups declared for a GroupCorrelator
MaxChars == 4       \* longest path string drawn character by character
MaxOps == 2         \* most operations in an rfc6902 patch
MaxNest == 2        \* deepest nesting of go-template payloads written out in full
MaxRefs == 2        \* most names in a template's fieldsToOmitRefs
MaxSubs == 3        \* most sub-correlators in a MultiCorrelator
MaxLoaded == 3      \* most overrides in the file the editor loads
MaxAccepted == 3    \* most patches accepted in one run of the editor

(***************************************************************************)
(* The recursive document type: map[string]any, []any, a scalar, nil.      *)
(***************************************************************************)
Scalar(v) == [t |-> "val", v |-> v]
MapDoc(m) == [t |-> "map", m |-> m]
SeqDoc(s) == [t |-> "seq", s |-> s]
NilDoc == [t |-> "nil"]

IsMap(d) == d.t = "map"
IsSeq(d) == d.t = "seq"

Keys == {"a", "b"}
Segments == {"a", "b", "0", "1", "-1", "9"}

MapsOver(V) == {MapDoc(f) : f \in UNION {[K -> V] : K \in SUBSET Keys}}
SeqsOver(V) == {SeqDoc(s) : s \in UNION {[1..n -> V] : n \in 0..MaxSeqLen}}

Scalars == {Scalar(1)}
Level1 == Scalars \cup MapsOver(Scalars) \cup SeqsOver(Scalars)
Level2 == MapsOver(Level1) \cup SeqsOver(Level1)
Level3 == {MapDoc([k \in {"a"} |-> d]) : d \in Level2}
              \cup {SeqDoc(<<d>>) : d \in MapsOver(Level1)}
Docs == Level2 \cup Level3

Paths == UNION {[1..n -> Segments] : n \in 1..MaxPathLen}

\* strconv.Atoi on the segments of the model: the parsed int and whether it
\* failed (Atoi returns 0 with the error).
Atoi(field) ==
    CASE field = "0"  -> [n |-> 0, err |-> FALSE]
      [] field = "1"  -> [n |-> 1, err |-> FALSE]
      [] field = "9"  -> [n |-> 9, err |-> FALSE]
      [] field = "-1" -> [n |-> -1, err |-> FALSE]
      [] OTHER        -> [n |-> 0, err |-> TRUE]

Tail1(s) == SubSeq(s, 2, Len(s))

\* Go's v[:index] and v[index+1:] on a slice held as a TLA+ sequence
\* (Go indexes from 0).
Prefix(s, index) == SubSeq(s, 1, index)
Suffix(s, index) == SubSeq(s, index + 2, Len(s))

\* delete(m, field)
MapDelete(m, field) == [k \in (DOMAIN m) \ {field} |-> m[k]]
\* m[field] = x
MapPut(m, field, x) == [k \in (DOMAIN m) \cup {field} |-> IF k = field THEN x ELSE m[k]]

(***************************************************************************)
(* NestedField: the value, whether it was found, whether an error was      *)
(* returned, and whether the call panicked (index out of range).           *)
(***************************************************************************)
Found(v) == [val |-> v, found |-> TRUE, err |-> FALSE, panic |-> FALSE]
NotFound == [val |-> NilDoc, found |-> FALSE, err |-> FALSE, panic |-> FALSE]
AccessErr == [val |-> NilDoc, found |-> FALSE, err |-> TRUE, panic |-> FALSE]
Panicked == [val |-> NilDoc, found |-> FALSE, err |-> FALSE, panic |-> TRUE]

RECURSIVE NestedField(_, _)
NestedField(val, fs) ==
    IF fs = <<>> THEN Found(val)
    ELSE IF val.t = "nil" THEN NotFound
    ELSE IF IsMap(val) THEN
        IF Head(fs) \notin DOMAIN val.m THEN NotFound
        ELSE NestedField(val.m[Head(fs)], Tail1(fs))
    ELSE IF IsSeq(val) THEN
        LET a == Atoi(Head(fs)) IN
        IF a.err THEN AccessErr
        ELSE IF Len(val.s) >= a.n THEN NotFound
        ELSE IF a.n + 1 \in 1..Len(val.s)
             THEN NestedField(val.s[a.n + 1], Tail1(fs))
             ELSE Panicked
    ELSE AccessErr

(***************************************************************************)
(* removeField and removeNestedFieldBacktrackEmpty: the resulting value,   *)
(* whether it is now empty, and whether the call panicked.                 *)
(***************************************************************************)
Ret(a, e) == [a |-> a, empty |-> e, panic |-> FALSE]
RetPanic == [a |-> NilDoc, empty |-> FALSE, panic |-> TRUE]

\* Mutant: the emptiness of a map is taken before the key is deleted.
removeField_EmptyBefore(o, field) ==
    IF IsMap(o) THEN
        Ret(MapDoc(MapDelete(o.m, field)), DOMAIN o.m = {})
    ELSE Ret(o, FALSE)

removeField(o, field) ==
    IF IsMap(o) THEN
        LET v == MapDelete(o.m, field) IN Ret(MapDoc(v), DOMAIN v = {})
    ELSE IF IsSeq(o) THEN
        LET a == Atoi(field)
            v == o.s
        IN  IF a.err \/ Len(v) > a.n THEN
                IF a.n < 0 THEN RetPanic
                ELSE LET res == IF Len(v) > a.n + 1
                                THEN Prefix(v, a.n) \o Suffix(v, a.n)
                                ELSE Prefix(v, a.n)
                     IN  Ret(SeqDoc(res), Len(res) = 0)
            ELSE Ret(o, FALSE)
    ELSE Ret(o, FALSE)

RECURSIVE removeNestedFieldBacktrackEmpty(_, _)
removeNestedFieldBacktrackEmpty(o, fs) ==
    LET field == Head(fs) IN
    IF Len(fs) = 1 THEN removeField(o, field)
    ELSE IF IsMap(o) THEN
        IF field \notin DOMAIN o.m THEN Ret(o, FALSE)
        ELSE LET r == removeNestedFieldBacktrackEmpty(o.m[field], Tail1(fs)) IN
             IF r.panic THEN RetPanic
             ELSE LET val == IF r.empty THEN MapDelete(o.m, field)
                                        ELSE MapPut(o.m, field, r.a)
                  IN  Ret(MapDoc(val), DOMAIN val = {})
    ELSE IF IsSeq(o) THEN
        LET a == Atoi(field) IN
        IF a.err \/ Len(o.s) <= a.n THEN Ret(o, FALSE)
        ELSE IF a.n < 0 THEN RetPanic
        ELSE LET r == removeNestedFieldBacktrackEmpty(o.s[a.n + 1], Tail1(fs)) IN
             IF r.panic THEN RetPanic
             ELSE IF r.empty THEN
                  \* val = val[:index]; the guarded append reads the already
                  \* truncated slice, whose length is index
                  LET val == Prefix(o.s, a.n) IN
                  IF Len(val) > a.n + 1 THEN RetPanic
                  ELSE Ret(SeqDoc(val), Len(val) = 0)
             ELSE LET val == [o.s EXCEPT ![a.n + 1] = r.a] IN
                  Ret(SeqDoc(val), Len(val) = 0)
    ELSE Ret(o, FALSE)

\* The document RemoveNestedField returns; a panic ends the program.
PanicDoc == [t |-> "panic"]

RemoveNestedField(o, fs) ==
    LET r == removeNestedFieldBacktrackEmpty(o, fs) IN
    IF r.panic THEN PanicDoc ELSE r.a

(***************************************************************************)
(* Single calls on a document.                                             *)
(***************************************************************************)
NoCall == [val |-> NilDoc, found |-> FALSE, err |-> FALSE, panic |-> FALSE]

TravInit ==
    /\ obj \in Docs
    /\ before = NilDoc
    /\ fields = <<>>
    /\ got = NoCall
    /\ toOmit = <<>>
    /\ first = NilDoc
    /\ tpc = "ready"

CallRemove ==
    /\ tpc = "ready"
    /\ \E p \in Paths :
        /\ fields' = p
        /\ before' = obj
        /\ obj' = RemoveNestedField(obj, p)
    /\ tpc' = "removed"
    /\ UNCHANGED <<got, toOmit, first>>

CallGet ==
    /\ tpc = "ready"
    /\ \E p \in Paths :
        /\ fields' = p
        /\ got' = NestedField(obj, p)
    /\ before' = obj
    /\ tpc' = "read"
    /\ UNCHANGED <<obj, toOmit, first>>

TravIdle ==
    /\ obj = NilDoc
    /\ before = NilDoc
    /\ fields = <<>>
    /\ got = NoCall
    /\ toOmit = <<>>
    /\ first = NilDoc
    /\ tpc = "idle"

MissIdle ==
    /\ parts = <<>>
    /\ matchedTemplates = {}
    /\ partReports = <<>>
    /\ missingCRs = <<>>
    /\ missingCount = 0
    /\ mpc = "idle"

CorrIdle ==
    /\ correlator = <<>>
    /\ errsToIgnore = {}
    /\ UnMatchedCRs = <<>>
    /\ unMatchedLock = 0
    /\ MatchedTemplatesNames = {}
    /\ matchedLock = 0
    /\ workers = <<>>
    /\ matchLog = <<>>
    /\ results = <<>>

GrpIdle ==
    /\ declGroups = <<>>
    /\ declObjects = <<>>
    /\ group = <<>>
    /\ hits = <<>>

PathIdle ==
    /\ pathStr = <<>>
    /\ splitRes = <<>>
    /\ ppc = "idle"

RefIdle ==
    /\ yamlOk = FALSE
    /\ userItems = <<>>
    /\ userDefaultKey = ""
    /\ Items = <<>>
    /\ DefaultKey = ""
    /\ processedItems = <<>>
    /\ loadErr = FALSE
    /\ rpc = "idle"

OvrIdle ==
    /\ override = <<>>
    /\ resource = NilDoc
    /\ curPatch = <<>>
    /\ curType = ""
    /\ rendered = <<>>
    /\ modified = NilDoc
    /\ applyErr = FALSE
    /\ returned = NilDoc
    /\ opc = "idle"

CfgIdle ==
    /\ omitRefs = <<>>
    /\ activeOmit = <<>>

ExIdle ==
    /\ userPairs = <<>>
    /\ userTemplates = <<>>
    /\ exact = <<>>
    /\ exactHits = <<>>

KeyIdle ==
    /\ crLeft = <<>>
    /\ crRight = <<>>
    /\ keyLeft = <<>>
    /\ keyRight = <<>>
    /\ hashFields = <<>>
    /\ hashLeft = <<>>
    /\ hashRight = <<>>
    /\ kpc = "idle"

EdIdle ==
    /\ dataLoaded = <<>>
    /\ dataAccepted = <<>>
    /\ dataIndex = 0
    /\ dataDiff = <<>>
    /\ focused = FALSE
    /\ showPatch = FALSE
    /\ mErr = FALSE
    /\ epc = "idle"

LateIdle == CfgIdle /\ ExIdle /\ KeyIdle /\ EdIdle

ExtIdle == GrpIdle /\ PathIdle /\ RefIdle /\ OvrIdle /\ LateIdle

InitRemove == TravInit /\ MissIdle /\ CorrIdle /\ ExtIdle

NextRemove == CallRemove /\ UNCHANGED OutsideTrav

NextGet == CallGet /\ UNCHANGED OutsideTrav

SpecRemove == InitRemove /\ [][NextRemove]_vars

SpecGet == InitRemove /\ [][NextGet]_vars

(***************************************************************************)
(* Omission: RemoveNestedField is applied for every path of the omission   *)
(* list, in order; the driver runs the whole list twice.                   *)
(***************************************************************************)
OmitSegments == {"a", "0"}
OmitPaths == {p \in Paths : Len(p) <= 2 /\ \A i \in 1..Len(p) : p[i] \in OmitSegments}
OmitLists == UNION {[1..n -> OmitPaths] : n \in 0..MaxPaths}

RECURSIVE OmitAll(_, _)
OmitAll(o, ps) ==
    IF ps = <<>> \/ o = PanicDoc THEN o
    ELSE OmitAll(RemoveNestedField(o, Head(ps)), Tail1(ps))

OmitInit ==
    /\ MissIdle
    /\ CorrIdle
    /\ ExtIdle
    /\ obj \in Docs
    /\ toOmit \in OmitLists
    /\ before = NilDoc
    /\ fields = <<>>
    /\ got = NoCall
    /\ first = NilDoc
    /\ tpc = "ready"

OmitFirst ==
    /\ tpc = "ready"
    /\ before' = obj
    /\ obj' = OmitAll(obj, toOmit)
    /\ first' = obj'
    /\ tpc' = "once"
    /\ UNCHANGED <<fields, got, toOmit>>

OmitSecond ==
    /\ tpc = "once"
    /\ obj # PanicDoc
    /\ obj' = OmitAll(obj, toOmit)
    /\ tpc' = "twice"
    /\ UNCHANGED <<before, fields, got, toOmit, first>>

NextOmit == (OmitFirst \/ OmitSecond) /\ UNCHANGED OutsideTrav

SpecOmit == OmitInit /\ [][NextOmit]_vars

(***************************************************************************)
(* Helpers for stating the traversal claims.                               *)
(***************************************************************************)
\* The node a path addresses: map lookup by key, sequence lookup by an
\* in-range index; NilDoc when the path addresses nothing.
RECURSIVE Descend(_, _)
Descend(d, fs) ==
    IF fs = <<>> THEN d
    ELSE IF IsMap(d) THEN
        IF Head(fs) \in DOMAIN d.m THEN Descend(d.m[Head(fs)], Tail1(fs)) ELSE NilDoc
    ELSE IF IsSeq(d) THEN
        LET a == Atoi(Head(fs)) IN
        IF ~a.err /\ a.n >= 0 /\ a.n < Len(d.s)
        THEN Descend(d.s[a.n + 1], Tail1(fs)) ELSE NilDoc
    ELSE NilDoc

\* Walking the path in d arrives at a sequence with a segment still to apply.
RECURSIVE ReachesSeq(_, _)
ReachesSeq(d, fs) ==
    IF fs = <<>> THEN FALSE
    ELSE IF IsSeq(d) THEN TRUE
    ELSE IF IsMap(d) /\ Head(fs) \in DOMAIN d.m
         THEN ReachesSeq(d.m[Head(fs)], Tail1(fs))
         ELSE FALSE

Front(fs, n) == SubSeq(fs, 1, Len(fs) - n)
Last(fs) == fs[Len(fs)]

\* A path whose prefix walks mappings only and whose last segment is an
\* in-range index of the sequence it arrives at.
EndsInIndex(d, p) ==
    LET c == Descend(d, Front(p, 1))
        a == Atoi(Last(p))
    IN  /\ ~ReachesSeq(d, Front(p, 1))
        /\ IsSeq(c)
        /\ ~a.err /\ a.n >= 0 /\ a.n < Len(c.s)

\* C1 (as stated), on the case it names: omission is idempotent also when a
\* path ends in a sequence index, i.e. the second pass over the list leaves
\* the result of the first pass unchanged.
C1_IdempotentAtIndex ==
    (tpc = "twice" /\ Len(toOmit) = 1 /\ EndsInIndex(before, toOmit[1]))
        => obj = first

MapsOnly ==
    \A i \in 1..Len(toOmit) : ~ReachesSeq(before, toOmit[i])

\* C1 (amended): omission is idempotent when no path of the list reaches a
\* sequence node of the document.
C1_IdempotentOnMaps ==
    (tpc = "twice" /\ MapsOnly) => obj = first

C1_Witness ==
    /\ tpc = "twice"
    /\ MapsOnly
    /\ Len(toOmit) = 2
    /\ first # before
    /\ OmitAll(before, <<toOmit[1]>>) # first
    /\ obj = first

\* C2: at a sequence, a segment that parses to i returns element i with
\* present = true when 0 <= i < len, and is rejected (nothing returned, no
\* out-of-range read) when i >= len.
C2_SequenceIndex ==
    (tpc = "read" /\ Len(fields) >= 1) =>
        LET c == Descend(before, Front(fields, 1))
            a == Atoi(Last(fields))
        IN  (IsSeq(c) /\ ~a.err /\ a.n >= 0) =>
                /\ a.n < Len(c.s) => got = Found(c.s[a.n + 1])
                /\ a.n >= Len(c.s) => (~got.found /\ ~got.panic)

\* C3: when removing the addressed leaf empties its container, the
\* container's entry is removed from its parent; a parent that is a sequence
\* loses only the emptied element and keeps every other element in order.
C3_ParentIsMap ==
    (tpc = "removed" /\ Len(fields) >= 2) =>
        LET q == Front(fields, 2)
            par == Descend(before, q)
            key == fields[Len(fields) - 1]
        IN  (/\ IsMap(par)
             /\ key \in DOMAIN par.m
             /\ IsMap(par.m[key])
             /\ DOMAIN par.m[key].m = {Last(fields)}
             /\ DOMAIN par.m # {key})
            => (obj # PanicDoc /\ Descend(obj, q) = MapDoc(MapDelete(par.m, key)))

C3_ParentIsSeq ==
    (tpc = "removed" /\ Len(fields) >= 2) =>
        LET q == Front(fields, 2)
            par == Descend(before, q)
            a == Atoi(fields[Len(fields) - 1])
        IN  (/\ IsSeq(par)
             /\ ~a.err /\ a.n >= 0 /\ a.n < Len(par.s)
             /\ IsMap(par.s[a.n + 1])
             /\ DOMAIN par.s[a.n + 1].m = {Last(fields)}
             /\ Len(par.s) >= 2)
            => (/\ obj # PanicDoc
                /\ Descend(obj, q) = SeqDoc(Prefix(par.s, a.n) \o Suffix(par.s, a.n)))

C3_BacktrackEmpty == C3_ParentIsMap /\ C3_ParentIsSeq

(***************************************************************************)
(* Summary: the missing-required report (parsing.go).                      *)
(***************************************************************************)
Required == "Required"
Optional == "Optional"
\* Component.Type is a string with omitempty: a descriptor that leaves out
\* `type` unmarshals to the empty string; nothing in the load path sets it.
ComponentTypes == {Required, Optional, ""}

\* Template paths and the component, part names of the descriptors drawn.
ReqOf(j) == IF j % 2 = 1 THEN <<"t1", "t2">> ELSE <<"t2", "t3">>
OptOf(j) == <<"o1">>
TemplatePaths == {"t1", "t2", "t3", "o1"}
CompNames == <<"c1", "c2", "c3", "c4">>
CompNameOf(j, dup) == IF dup THEN CompNames[1] ELSE CompNames[j]
PartNameLists == {<<>>, <<"p1">>, <<"p1", "p2">>, <<"p1", "p1">>}

Component(name, type, req, opt) ==
    [Name |-> name, Type |-> type, RequiredTemplates |-> req, OptionalTemplates |-> opt]

\* The component lists of a part: up to MaxComps components of any type,
\* with distinct names or all with one name.
ComponentLists ==
    UNION {
        {[j \in 1..n |-> Component(CompNameOf(j, dup), ty[j], ReqOf(j), OptOf(j))] :
            ty \in [1..n -> ComponentTypes], dup \in IF n >= 2 THEN BOOLEAN ELSE {FALSE}}
        : n \in 0..MaxComps}

Part(name, comps) == [Name |-> name, Components |-> comps]

References ==
    UNION {
        {[i \in 1..Len(names) |-> Part(names[i], cl[i])] :
            cl \in [1..Len(names) -> ComponentLists]}
        : names \in PartNameLists}

\* Component.getMissingCRs: the required templates not matched, in order.
RECURSIVE ComponentGetMissingCRs(_, _)
ComponentGetMissingCRs(req, matched) ==
    IF req = <<>> THEN <<>>
    ELSE (IF Head(req) \notin matched THEN <<Head(req)>> ELSE <<>>)
            \o ComponentGetMissingCRs(Tail1(req), matched)

\* Mutant: an Optional component reports whenever something is unmatched.
ReportsMissing_NoPartial(comp, compCRs) ==
    Len(compCRs) > 0 /\ (comp.Type = Required \/ comp.Type = Optional)

\* The condition of Part.getMissingCRs under which a component is reported.
ReportsMissing(comp, compCRs) ==
    /\ Len(compCRs) > 0
    /\ \/ comp.Type = Required
       \/ comp.Type = Optional /\ Len(compCRs) # Len(comp.RequiredTemplates)

Report(crs, count) == [crs |-> crs, count |-> count]

RECURSIVE PartLoop(_, _, _, _)
PartLoop(comps, matched, crs, count) ==
    IF comps = <<>> THEN Report(crs, count)
    ELSE LET comp == Head(comps)
             compCRs == ComponentGetMissingCRs(comp.RequiredTemplates, matched)
         IN  IF ReportsMissing(comp, compCRs)
             THEN PartLoop(Tail1(comps), matched,
                           MapPut(crs, comp.Name, compCRs), count + Len(compCRs))
             ELSE PartLoop(Tail1(comps), matched, crs, count)

PartGetMissingCRs(p, matched) == PartLoop(p.Components, matched, <<>>, 0)

\* Mutant: every part is entered in the map, also one with nothing missing.
KeepsPart_Always(countInPart) == TRUE

\* The condition of Reference.getMissingCRs under which a part is entered.
KeepsPart(countInPart) == countInPart > 0

RECURSIVE ReferenceLoop(_, _, _, _)
ReferenceLoop(ps, matched, crs, count) ==
    IF ps = <<>> THEN Report(crs, count)
    ELSE LET part == Head(ps)
             inPart == PartGetMissingCRs(part, matched)
         IN  IF KeepsPart(inPart.count)
             THEN ReferenceLoop(Tail1(ps), matched,
                                MapPut(crs, part.Name, inPart.crs), count + inPart.count)
             ELSE ReferenceLoop(Tail1(ps), matched, crs, count)

ReferenceGetMissingCRs(ps, matched) == ReferenceLoop(ps, matched, <<>>, 0)

MissInit ==
    /\ parts \in References
    /\ matchedTemplates \in SUBSET TemplatePaths
    /\ partReports = <<>>
    /\ missingCRs = <<>>
    /\ missingCount = 0
    /\ mpc = "ready"

GetMissingCRs ==
    /\ mpc = "ready"
    /\ LET r == ReferenceGetMissingCRs(parts, matchedTemplates) IN
        /\ missingCRs' = r.crs
        /\ missingCount' = r.count
    /\ partReports' = [i \in 1..Len(parts) |-> PartGetMissingCRs(parts[i], matchedTemplates)]
    /\ mpc' = "done"
    /\ UNCHANGED <<parts, matchedTemplates>>

InitMissing == MissInit /\ TravIdle /\ CorrIdle /\ ExtIdle

NextMissing == GetMissingCRs /\ UNCHANGED OutsideMiss

SpecMissing == InitMissing /\ [][NextMissing]_vars

(***************************************************************************)
(* Helpers for stating the missing-required claims.                        *)
(***************************************************************************)
Range(q) == {q[k] : k \in 1..Len(q)}

NumMatched(c) ==
    Cardinality({k \in 1..Len(c.RequiredTemplates) :
                    c.RequiredTemplates[k] \in matchedTemplates})

Unmatched(c) ==
    SelectSeq(c.RequiredTemplates, LAMBDA t : t \notin matchedTemplates)

\* The rule of the specification: (a) Required with a required template
\* unmatched, or (b) Optional with at least one but not all matched.
RuleReports(c) ==
    \/ c.Type = Required /\ NumMatched(c) < Len(c.RequiredTemplates)
    \/ /\ c.Type = Optional
       /\ NumMatched(c) >= 1
       /\ NumMatched(c) < Len(c.RequiredTemplates)

UniqueName(q, j) == \A k \in 1..Len(q) : k # j => q[k].Name # q[j].Name

RECURSIVE SumRule(_)
SumRule(comps) ==
    IF comps = <<>> THEN 0
    ELSE (IF RuleReports(Head(comps)) THEN Len(Unmatched(Head(comps))) ELSE 0)
            + SumRule(Tail1(comps))

\* The number of template paths listed in a component -> paths map.
RECURSIVE ListedIn(_, _)
ListedIn(m, D) ==
    IF D = {} THEN 0
    ELSE LET k == CHOOSE k \in D : TRUE IN Len(m[k]) + ListedIn(m, D \ {k})

\* ... and in a part -> component -> paths map.
RECURSIVE TotalListed(_, _)
TotalListed(mm, D) ==
    IF D = {} THEN 0
    ELSE LET k == CHOOSE k \in D : TRUE
         IN  ListedIn(mm[k], DOMAIN mm[k]) + TotalListed(mm, D \ {k})

\* C4: a component reports its unmatched required templates exactly when it
\* is Required with one unmatched, or Optional with at least one but not
\* all matched; the part's count adds up exactly the components the rule
\* names, and only required templates are ever listed.
C4_MissingRule ==
    mpc = "done" =>
        \A i \in 1..Len(parts) :
            LET comps == parts[i].Components
                r == partReports[i]
            IN  /\ r.count = SumRule(comps)
                /\ \A j \in 1..Len(comps) :
                      UniqueName(comps, j) =>
                        /\ comps[j].Name \in DOMAIN r.crs <=> RuleReports(comps[j])
                        /\ RuleReports(comps[j]) =>
                              r.crs[comps[j].Name] = Unmatched(comps[j])
                /\ \A n \in DOMAIN r.crs : \A k \in 1..Len(r.crs[n]) :
                      \E j \in 1..Len(comps) :
                          /\ comps[j].Name = n
                          /\ r.crs[n][k] \in Range(comps[j].RequiredTemplates)
                          /\ r.crs[n][k] \notin matchedTemplates

\* A part where one Optional component is partially matched and reported
\* and another Optional component has nothing matched and is not reported.
C4_Witness ==
    /\ mpc = "done"
    /\ \E i \in 1..Len(parts) :
        LET comps == parts[i].Components IN
        \E j, k \in 1..Len(comps) :
            /\ comps[j].Name # comps[k].Name
            /\ comps[j].Type = Optional /\ comps[k].Type = Optional
            /\ NumMatched(comps[j]) = 1
            /\ NumMatched(comps[k]) = 0
            /\ partReports[i].crs[comps[j].Name] = Unmatched(comps[j])
            /\ comps[k].Name \notin DOMAIN partReports[i].crs
            /\ "o1" \notin matchedTemplates

\* C5: the count Reference.getMissingCRs returns is the number of template
\* paths listed in the map it returns, and a part name is in the map only
\* for a part that reported something missing.
C5_Rollup ==
    mpc = "done" =>
        /\ missingCount = TotalListed(missingCRs, DOMAIN missingCRs)
        /\ \A n \in DOMAIN missingCRs :
              \E i \in 1..Len(parts) : parts[i].Name = n /\ partReports[i].count > 0

\* C6: a component whose type is left out is treated as Required: when one
\* of its required templates is unmatched it is reported with them.
C6_DefaultRequired ==
    mpc = "done" =>
        \A i \in 1..Len(parts) :
            LET comps == parts[i].Components IN
            \A j \in 1..Len(comps) :
                (/\ comps[j].Type = ""
                 /\ Unmatched(comps[j]) # <<>>
                 /\ UniqueName(parts, i)
                 /\ UniqueName(comps, j))
                => /\ parts[i].Name \in DOMAIN missingCRs
                   /\ comps[j].Name \in DOMAIN missingCRs[parts[i].Name]
                   /\ missingCRs[parts[i].Name][comps[j].Name] = Unmatched(comps[j])

(***************************************************************************)
(* Correlators (correlator.go).  Strings that are joined or compared as    *)
(* keys are sequences of characters, so that a join is a concatenation.    *)
(***************************************************************************)
fieldSeparator == <<"_">>

RECURSIVE Join(_, _)
Join(values, sep) ==
    IF values = <<>> THEN <<>>
    ELSE IF Len(values) = 1 THEN values[1]
    ELSE values[1] \o sep \o Join(Tail1(values), sep)

\* An unstructured resource (or the metadata a template renders with no
\* parameters): the four addressable strings; "" stands for an absent field.
Resource(api, kind, ns, name) ==
    [apiVersion |-> api, kind |-> kind, namespace |-> ns, name |-> name]

\* unstructured.NestedString on the field paths the correlators use.
NestedString(cr, path) ==
    CASE path = <<"apiVersion">>            -> cr.apiVersion
      [] path = <<"kind">>                  -> cr.kind
      [] path = <<"metadata", "namespace">> -> cr.namespace
      [] path = <<"metadata", "name">>      -> cr.name
      [] OTHER                              -> <<>>

apiKindNamespaceName(r) ==
    IF r.namespace = <<>>
    THEN Join(<<r.apiVersion, r.kind, r.name>>, fieldSeparator)
    ELSE Join(<<r.apiVersion, r.kind, r.namespace, r.name>>, fieldSeparator)

\* A CorrelationEntry: GetName() and GetMetadata().
Template(name, md) == [name |-> name, md |-> md]

\* Errors.  TypeName is reflect.TypeOf(e).Name(): the struct name for the
\* two correlation errors, "" for a pointer type such as a joined error.
NoErr == [t |-> "nil"]
UnknownMatch(r) == [t |-> "UnknownMatch", Resource |-> r]
MultipleMatches(r, ms) == [t |-> "MultipleMatches", Resource |-> r, Matches |-> ms]
HashErr == [t |-> "errorString"]
Joined(errs) == [t |-> "joinError", errs |-> errs]

TypeName(e) ==
    IF e.t \in {"UnknownMatch", "MultipleMatches"} THEN e.t ELSE ""

\* errors.Join: nil when there is nothing to join.
ErrorsJoin(errs) == IF errs = <<>> THEN NoErr ELSE Joined(errs)

\* errors.As(err, &T{}) for a struct error type T: the error itself or any
\* error joined into it.
RECURSIVE ErrorsAs(_, _)
ErrorsAs(err, type) ==
    \/ err.t = type
    \/ /\ err.t = "joinError"
       /\ \E k \in 1..Len(err.errs) : ErrorsAs(err.errs[k], type)

Result(temps, err) == [temps |-> temps, err |-> err]

\* ---- ExactMatchCorrelator ----
ExactMatchCorrelator(index) == [kind |-> "exact", apiKindNamespaceName |-> index]
LoadError == [kind |-> "error"]

\* nameToObject: a later template of the same name replaces an earlier one.
RECURSIVE NameToObject(_, _)
NameToObject(templates, acc) ==
    IF templates = <<>> THEN acc
    ELSE NameToObject(Tail1(templates), MapPut(acc, Head(templates).name, Head(templates)))

\* Mutant: a pair whose template is missing is left out and the load succeeds.
NewExactMatchCorrelator_SkipMissing(matchPairs, templates) ==
    LET nameToObject == NameToObject(templates, <<>>) IN
    ExactMatchCorrelator([cr \in {k \in DOMAIN matchPairs : matchPairs[k] \in DOMAIN nameToObject}
                             |-> nameToObject[matchPairs[cr]]])

NewExactMatchCorrelator(matchPairs, templates) ==
    LET nameToObject == NameToObject(templates, <<>>) IN
    IF \E cr \in DOMAIN matchPairs : matchPairs[cr] \notin DOMAIN nameToObject
    THEN LoadError
    ELSE ExactMatchCorrelator([cr \in DOMAIN matchPairs |-> nameToObject[matchPairs[cr]]])

ExactMatchCorrelatorMatch(c, object) ==
    LET key == apiKindNamespaceName(object) IN
    IF key \notin DOMAIN c.apiKindNamespaceName
    THEN Result(<<>>, UnknownMatch(object))
    ELSE Result(<<c.apiKindNamespaceName[key]>>, NoErr)

\* ---- FieldCorrelator ----
\* createGroupHashFunc: the joined values, or an error when a field is
\* absent or empty.
HashOk(h) == [hash |-> h, err |-> FALSE]
HashFailed == [hash |-> <<>>, err |-> TRUE]

GroupHashFunc(fieldGroup, cr) ==
    IF \E k \in 1..Len(fieldGroup) : NestedString(cr, fieldGroup[k]) = <<>>
    THEN HashFailed
    ELSE HashOk(Join([k \in 1..Len(fieldGroup) |-> NestedString(cr, fieldGroup[k])],
                     fieldSeparator))

FieldCorrelator(fieldGroup, objects) == [Fields |-> fieldGroup, objects |-> objects]

\* ClaimTemplates: the correlator with the claimed templates indexed, and
\* the templates it discarded.
RECURSIVE ClaimLoop(_, _, _, _)
ClaimLoop(fieldGroup, templates, objects, discarded) ==
    IF templates = <<>>
    THEN [fc |-> FieldCorrelator(fieldGroup, objects), discarded |-> discarded]
    ELSE LET temp == Head(templates)
             h == GroupHashFunc(fieldGroup, temp.md)
         IN  IF h.err
             THEN ClaimLoop(fieldGroup, Tail1(templates), objects, Append(discarded, temp))
              \* (a hash holding the "<no value>" token is discarded too; the
             \* metadata of the model holds none)
             ELSE ClaimLoop(fieldGroup, Tail1(templates),
                            MapPut(objects, h.hash,
                                   IF h.hash \in DOMAIN objects
                                   THEN Append(objects[h.hash], temp)
                                   ELSE <<temp>>),
                            discarded)

ClaimTemplates(fieldGroup, templates) == ClaimLoop(fieldGroup, templates, <<>>, <<>>)

\* Mutant: an ambiguous bucket answers with its first template.
FieldCorrelatorMatch_First(f, object) ==
    LET h == GroupHashFunc(f.Fields, object) IN
    IF h.err THEN Result(<<>>, HashErr)
    ELSE IF h.hash \notin DOMAIN f.objects THEN Result(<<>>, UnknownMatch(object))
    ELSE Result(<<f.objects[h.hash][1]>>, NoErr)

FieldCorrelatorMatch(f, object) ==
    LET h == GroupHashFunc(f.Fields, object) IN
    IF h.err THEN Result(<<>>, HashErr)
    ELSE IF h.hash \notin DOMAIN f.objects THEN Result(<<>>, UnknownMatch(object))
    ELSE IF Len(f.objects[h.hash]) > 1
         THEN Result(<<>>, MultipleMatches(object, f.objects[h.hash]))
         ELSE Result(f.objects[h.hash], NoErr)

\* ---- GroupCorrelator ----
GroupCorrelator(fcs) == [kind |-> "group", fieldCorrelators |-> fcs]

\* sort.Slice(fieldGroups, less) with less(i, j) = len(i) >= len(j).  For a
\* slice of at most 12 elements sort.Slice is an insertion sort: an element
\* moves left while less(it, its left neighbour).
RECURSIVE SinkLeft(_, _)
SinkLeft(data, j) ==
    IF j > 1 /\ Len(data[j]) >= Len(data[j - 1])
    THEN SinkLeft([data EXCEPT ![j] = data[j - 1], ![j - 1] = data[j]], j - 1)
    ELSE data

RECURSIVE InsertionSort(_, _)
InsertionSort(data, i) ==
    IF i > Len(data) THEN data ELSE InsertionSort(SinkLeft(data, i), i + 1)

SortFieldGroups(fieldGroups) == InsertionSort(fieldGroups, 2)

\* Mutant: every group is offered all the templates.
RECURSIVE GroupLoop_OfferAll(_, _, _)
GroupLoop_OfferAll(groups, objects, fcs) ==
    IF groups = <<>> THEN fcs
    ELSE LET claim == ClaimTemplates(Head(groups), objects) IN
         IF Len(claim.discarded) = Len(objects)
         THEN GroupLoop_OfferAll(Tail1(groups), objects, fcs)
         ELSE GroupLoop_OfferAll(Tail1(groups), objects, Append(fcs, claim.fc))

RECURSIVE GroupLoop(_, _, _)
GroupLoop(groups, objects, fcs) ==
    IF groups = <<>> THEN fcs
    ELSE LET claim == ClaimTemplates(Head(groups), objects) IN
         IF Len(claim.discarded) = Len(objects)
         THEN GroupLoop(Tail1(groups), objects, fcs)
         ELSE IF Len(claim.discarded) = 0
              THEN Append(fcs, claim.fc)
              ELSE GroupLoop(Tail1(groups), claim.discarded, Append(fcs, claim.fc))

NewGroupCorrelator(fieldGroups, objects) ==
    GroupCorrelator(GroupLoop(SortFieldGroups(fieldGroups), objects, <<>>))

\* Mutant: the search ends at the first ambiguous bucket.
RECURSIVE GroupMatchLoop_StopAtAmbiguous(_, _, _)
GroupMatchLoop_StopAtAmbiguous(fcs, object, multipleMatchError) ==
    IF fcs = <<>> THEN Result(<<>>, UnknownMatch(object))
    ELSE LET r == FieldCorrelatorMatch(Head(fcs), object) IN
         IF r.err = NoErr THEN Result(r.temps, NoErr)
         ELSE IF ErrorsAs(r.err, "MultipleMatches") THEN Result(<<>>, r.err)
         ELSE GroupMatchLoop_StopAtAmbiguous(Tail1(fcs), object, multipleMatchError)

RECURSIVE GroupMatchLoop(_, _, _)
GroupMatchLoop(fcs, object, multipleMatchError) ==
    IF fcs = <<>> THEN
        IF multipleMatchError # NoErr THEN Result(<<>>, multipleMatchError)
        ELSE Result(<<>>, UnknownMatch(object))
    ELSE LET r == FieldCorrelatorMatch(Head(fcs), object) IN
         IF r.err # NoErr THEN
            GroupMatchLoop(Tail1(fcs), object,
                           IF ErrorsAs(r.err, "MultipleMatches") /\ multipleMatchError = NoErr
                           THEN r.err ELSE multipleMatchError)
         ELSE IF Len(r.temps) = 1 THEN Result(r.temps, NoErr)
         ELSE GroupMatchLoop(Tail1(fcs), object, multipleMatchError)

GroupCorrelatorMatch(c, object) == GroupMatchLoop(c.fieldCorrelators, object, NoErr)

\* ---- MultiCorrelator ----
MultiCorrelator(correlators) == [kind |-> "multi", correlators |-> correlators]

\* Correlator.Match of a sub-correlator of the chain.
SubMatch(core, object) ==
    IF core.kind = "exact" THEN ExactMatchCorrelatorMatch(core, object)
    ELSE GroupCorrelatorMatch(core, object)

\* Mutant: every error lets the next sub-correlator be tried.
RECURSIVE MultiMatchLoop_TryAll(_, _, _)
MultiMatchLoop_TryAll(correlators, object, errs) ==
    IF correlators = <<>> THEN Result(<<>>, ErrorsJoin(errs))
    ELSE LET r == SubMatch(Head(correlators), object) IN
         IF r.err = NoErr THEN r
         ELSE MultiMatchLoop_TryAll(Tail1(correlators), object, Append(errs, r.err))

RECURSIVE MultiMatchLoop(_, _, _)
MultiMatchLoop(correlators, object, errs) ==
    IF correlators = <<>> THEN Result(<<>>, ErrorsJoin(errs))
    ELSE LET r == SubMatch(Head(correlators), object) IN
         IF r.err = NoErr \/ ~ErrorsAs(r.err, "UnknownMatch") THEN r
         ELSE MultiMatchLoop(Tail1(correlators), object, Append(errs, r.err))

MultiCorrelatorMatch(c, object) == MultiMatchLoop(c.correlators, object, <<>>)

(***************************************************************************)
(* The templates, resources and chain configurations drawn.                *)
(***************************************************************************)
V1 == <<"v1">>
Pod == <<"Pod">>
Svc == <<"Svc">>
Kinds == {Pod, Svc}
Namespaces == {<<>>, <<"ns">>}
Names == {<<"x">>, <<"y">>}

Resources == {Resource(V1, k, ns, n) : k \in Kinds, ns \in Namespaces, n \in Names}

tA == Template("a.yaml", Resource(V1, Pod, <<>>, <<>>))
tB == Template("b.yaml", Resource(V1, Pod, <<>>, <<>>))
tC == Template("c.yaml", Resource(V1, Svc, <<"ns">>, <<"x">>))
tD == Template("d.yaml", Resource(V1, Pod, <<>>, <<"x">>))

TemplateLists == {<<tA, tB, tC, tD>>, <<tD, tC, tA>>, <<tC>>, <<tA, tB>>}

fKind == <<"kind">>
fNamespace == <<"metadata", "namespace">>
fName == <<"metadata", "name">>

FieldGroupLists ==
    { << <<fKind>>, <<fKind, fNamespace, fName>>, <<fKind, fName>> >>,
      << <<fKind, fName>>, <<fNamespace, fName>>, <<fKind>> >>,
      << <<fKind>> >> }

MatchPairsChoices ==
    { <<>>,
      [k \in {apiKindNamespaceName(Resource(V1, Svc, <<>>, <<"x">>))} |-> "a.yaml"] }

\* The chain the driver builds: MultiCorrelator over [ExactMatch, GroupHash].
NewChain(matchPairs, templates, fieldGroups) ==
    MultiCorrelator(<<NewExactMatchCorrelator(matchPairs, templates),
                      NewGroupCorrelator(fieldGroups, templates)>>)

\* A correlator that returns one fixed result, whatever the resource.
CannedCorrelator(r) == [kind |-> "canned", result |-> r]

\* Correlator.Match of the correlator the decorator wraps.
CorrelatorMatch(c, object) ==
    IF c.kind = "canned" THEN c.result ELSE MultiCorrelatorMatch(c, object)

(***************************************************************************)
(* MetricsCorrelatorDecorator.                                             *)
(***************************************************************************)
Workers == 1..MaxWorkers

\* Mutant: a joined error is judged by its own type, not by its parts.
containOnly_NoUnwrap(err, errTypes) ==
    \E errType \in errTypes : TypeName(errType) = TypeName(err)

containOnly(err, errTypes) ==
    LET errs == IF err.t = "joinError" THEN err.errs ELSE <<err>> IN
    \A k \in 1..Len(errs) :
        \E errType \in errTypes : TypeName(errType) = TypeName(errs[k])

\* Mutant: every result that is not exactly one template counts as multiple.
TooMany_NotOne(temps) == Len(temps) # 1

\* len(temps) > 1
TooMany(temps) == Len(temps) > 1

\* Mutant: Lock never waits.
CanLock_Always(lock) == TRUE

\* sync.Mutex.Lock returns once the mutex is free.
CanLock(lock) == lock = 0

NewWorker(object) ==
    [pc |-> "start", object |-> object, temps |-> <<>>, err |-> NoErr,
     stage |-> 0, tmp |-> <<>>,
     res |-> Result(<<>>, NoErr), appended |-> 0, added |-> {}]

\* NewMetricsCorrelatorDecorator
NewMetricsCorrelatorDecorator(c, ignore) ==
    /\ correlator = c
    /\ errsToIgnore = ignore
    /\ UnMatchedCRs = <<>>
    /\ unMatchedLock = 0
    /\ MatchedTemplatesNames = {}
    /\ matchedLock = 0

IgnoreChoices == SUBSET {[t |-> "UnknownMatch"], [t |-> "MultipleMatches"]}

MetricsResources ==
    { Resource(V1, Pod, <<>>, <<"x">>), Resource(V1, Pod, <<>>, <<"y">>),
      Resource(V1, Svc, <<"ns">>, <<"x">>), Resource(V1, Svc, <<>>, <<"x">>) }

MetricsInit ==
    /\ \E mp \in MatchPairsChoices, ig \in IgnoreChoices :
        NewMetricsCorrelatorDecorator(
            NewChain(mp, <<tA, tB, tC, tD>>,
                     << <<fKind>>, <<fKind, fNamespace, fName>>, <<fKind, fName>> >>), ig)
    /\ workers \in [Workers -> {NewWorker(r) : r \in MetricsResources}]
    /\ matchLog = <<>>
    /\ results = <<>>

\* line 243-246: the wrapped Match, then the first decision to record.
Call(w) ==
    /\ workers[w].pc = "start"
    /\ LET r == CorrelatorMatch(correlator, workers[w].object) IN
        workers' = [workers EXCEPT ![w].temps = r.temps, ![w].err = r.err, ![w].res = r,
                        ![w].stage = 1,
                        ![w].pc = IF r.err # NoErr /\ ~containOnly(r.err, errsToIgnore)
                                  THEN "uLock" ELSE "len"]
    /\ UNCHANGED <<correlator, errsToIgnore, UnMatchedCRs, unMatchedLock,
                   MatchedTemplatesNames, matchedLock, matchLog, results>>

\* line 247-250
CheckLen(w) ==
    /\ workers[w].pc = "len"
    /\ workers' = IF TooMany(workers[w].temps)
                  THEN [workers EXCEPT
                            ![w].err = MultipleMatches(workers[w].object, workers[w].temps),
                            ![w].stage = 2, ![w].pc = "uLock"]
                  ELSE [workers EXCEPT ![w].pc = "ret"]
    /\ UNCHANGED <<correlator, errsToIgnore, UnMatchedCRs, unMatchedLock,
                   MatchedTemplatesNames, matchedLock, matchLog, results>>

\* addUNMatch: Lock, the append (a read, then a write of the slice), Unlock.
UnMatchLock(w) ==
    /\ workers[w].pc = "uLock"
    /\ CanLock(unMatchedLock)
    /\ unMatchedLock' = w
    /\ workers' = [workers EXCEPT ![w].pc = "uRead"]
    /\ UNCHANGED <<correlator, errsToIgnore, UnMatchedCRs,
                   MatchedTemplatesNames, matchedLock, matchLog, results>>

UnMatchRead(w) ==
    /\ workers[w].pc = "uRead"
    /\ workers' = [workers EXCEPT ![w].tmp = UnMatchedCRs, ![w].pc = "uWrite"]
    /\ UNCHANGED <<correlator, errsToIgnore, UnMatchedCRs, unMatchedLock,
                   MatchedTemplatesNames, matchedLock, matchLog, results>>

UnMatchWrite(w) ==
    /\ workers[w].pc = "uWrite"
    /\ UnMatchedCRs' = Append(workers[w].tmp, workers[w].object)
    /\ workers' = [workers EXCEPT ![w].appended = @ + 1, ![w].pc = "uUnlock"]
    /\ UNCHANGED <<correlator, errsToIgnore, unMatchedLock,
                   MatchedTemplatesNames, matchedLock, matchLog, results>>

UnMatchUnlock(w) ==
    /\ workers[w].pc = "uUnlock"
    /\ unMatchedLock' = 0
    /\ workers' = [workers EXCEPT ![w].pc = IF workers[w].stage = 1 THEN "len" ELSE "ret"]
    /\ UNCHANGED <<correlator, errsToIgnore, UnMatchedCRs,
                   MatchedTemplatesNames, matchedLock, matchLog, results>>

\* line 252-256: return the error, or take temps[0]
CheckErr(w) ==
    /\ workers[w].pc = "ret"
    /\ workers' = [workers EXCEPT ![w].pc =
                        IF workers[w].err # NoErr THEN "done"
                        ELSE IF workers[w].temps = <<>> THEN "panic"
                        ELSE "mLock"]
    /\ UNCHANGED <<correlator, errsToIgnore, UnMatchedCRs, unMatchedLock,
                   MatchedTemplatesNames, matchedLock, matchLog, results>>

\* addMatch: Lock, the map write, Unlock.
MatchLock(w) ==
    /\ workers[w].pc = "mLock"
    /\ CanLock(matchedLock)
    /\ matchedLock' = w
    /\ workers' = [workers EXCEPT ![w].pc = "mWrite"]
    /\ UNCHANGED <<correlator, errsToIgnore, UnMatchedCRs, unMatchedLock,
                   MatchedTemplatesNames, matchLog, results>>

MatchWrite(w) ==
    /\ workers[w].pc = "mWrite"
    /\ MatchedTemplatesNames' = MatchedTemplatesNames \cup {workers[w].temps[1].name}
    /\ workers' = [workers EXCEPT ![w].added = @ \cup {workers[w].temps[1].name},
                                  ![w].pc = "mUnlock"]
    /\ UNCHANGED <<correlator, errsToIgnore, UnMatchedCRs, unMatchedLock,
                   matchedLock, matchLog, results>>

MatchUnlock(w) ==
    /\ workers[w].pc = "mUnlock"
    /\ matchedLock' = 0
    /\ workers' = [workers EXCEPT ![w].pc = "done"]
    /\ UNCHANGED <<correlator, errsToIgnore, UnMatchedCRs, unMatchedLock,
                   MatchedTemplatesNames, matchLog, results>>

DecoratorMatch(w) ==
    \/ Call(w)
    \/ CheckLen(w)
    \/ UnMatchLock(w)
    \/ UnMatchRead(w)
    \/ UnMatchWrite(w)
    \/ UnMatchUnlock(w)
    \/ CheckErr(w)
    \/ MatchLock(w)
    \/ MatchWrite(w)
    \/ MatchUnlock(w)

InitMetrics == MetricsInit /\ TravIdle /\ MissIdle /\ ExtIdle

NextMetrics == (\E w \in Workers : DecoratorMatch(w)) /\ UNCHANGED OutsideCorr

SpecMetrics == InitMetrics /\ [][NextMetrics]_vars

\* A decorator over a correlator that returns one fixed result: every shape
\* of error a Correlator may hand back, single or joined, and one success.
Object0 == Resource(V1, Pod, <<>>, <<"y">>)
CannedErrs == {UnknownMatch(Object0), MultipleMatches(Object0, <<tA, tB>>), HashErr}
CannedJoins == {Joined(q) : q \in UNION {[1..n -> CannedErrs] : n \in 1..MaxJoin}}
CannedResults ==
    {Result(<<>>, e) : e \in CannedErrs \cup CannedJoins} \cup {Result(<<tA>>, NoErr)}

IgnoreInit ==
    /\ \E r \in CannedResults, ig \in IgnoreChoices :
        NewMetricsCorrelatorDecorator(CannedCorrelator(r), ig)
    /\ workers = [w \in Workers |-> NewWorker(Object0)]
    /\ matchLog = <<>>
    /\ results = <<>>

InitIgnore == IgnoreInit /\ TravIdle /\ MissIdle /\ ExtIdle

SpecIgnore == InitIgnore /\ [][NextMetrics]_vars

(***************************************************************************)
(* A chain matched against one resource after another.                     *)
(***************************************************************************)
NoneYet == [temps |-> <<>>, err |-> [t |-> "none"]]

TemplateNames(templates) == {templates[k].name : k \in 1..Len(templates)}

CorrelateInit ==
    /\ \E mp \in MatchPairsChoices, tl \in TemplateLists, fg \in FieldGroupLists :
        /\ \A cr \in DOMAIN mp : mp[cr] \in TemplateNames(tl)
        /\ correlator = NewChain(mp, tl, fg)
    /\ errsToIgnore = {}
    /\ UnMatchedCRs = <<>>
    /\ unMatchedLock = 0
    /\ MatchedTemplatesNames = {}
    /\ matchedLock = 0
    /\ workers = <<>>
    /\ matchLog = <<>>
    /\ results = [r \in Resources |-> NoneYet]

\* The chain with a template taken out of every bucket.
WithoutTemplate(c, temp) ==
    [c EXCEPT !.correlators[2].fieldCorrelators =
        [k \in 1..Len(@) |->
            [@[k] EXCEPT !.objects =
                [h \in DOMAIN @ |-> SelectSeq(@[h], LAMBDA t : t # temp)]]]]

\* Mutant: a matched template is taken out of the group index.
MatchResource_Consumes(cr) ==
    /\ Len(matchLog) < MaxCalls
    /\ LET r == CorrelatorMatch(correlator, cr) IN
        /\ results' = [results EXCEPT ![cr] = r]
        /\ correlator' = IF r.err = NoErr THEN WithoutTemplate(correlator, r.temps[1])
                         ELSE correlator
    /\ matchLog' = Append(matchLog, cr)
    /\ UNCHANGED <<errsToIgnore, UnMatchedCRs, unMatchedLock,
                   MatchedTemplatesNames, matchedLock, workers>>

\* Correlator.Match on the chain: the indexes are read, never written.
MatchResource(cr) ==
    /\ Len(matchLog) < MaxCalls
    /\ results' = [results EXCEPT ![cr] = CorrelatorMatch(correlator, cr)]
    /\ matchLog' = Append(matchLog, cr)
    /\ UNCHANGED <<correlator, errsToIgnore, UnMatchedCRs, unMatchedLock,
                   MatchedTemplatesNames, matchedLock, workers>>

InitCorrelate == CorrelateInit /\ TravIdle /\ MissIdle /\ ExtIdle

NextCorrelate == (\E cr \in Resources : MatchResource(cr)) /\ UNCHANGED OutsideCorr

SpecCorrelate == InitCorrelate /\ [][NextCorrelate]_vars

(***************************************************************************)
(* Helpers for stating the correlator claims.                              *)
(***************************************************************************)
Constituents(err) ==
    IF err.t = "joinError" THEN Range(err.errs) ELSE {err}

IgnoredTypes == {e.t : e \in errsToIgnore}

AllIgnorable(err) == \A e \in Constituents(err) : e.t \in IgnoredTypes

\* The wrapped Match of worker w failed with an error that is not ignorable.
FailedHard(w) ==
    workers[w].res.err # NoErr /\ ~AllIgnorable(workers[w].res.err)

Succeeded(w) == workers[w].res.err = NoErr

AllDone == \A w \in Workers : workers[w].pc = "done"

CountIn(q, x) == Cardinality({k \in 1..Len(q) : q[k] = x})

\* C7: under every interleaving of the workers' Match calls no record is
\* lost or duplicated: once all calls have returned, UnMatchedCRs holds one
\* entry per call that failed with a non-ignorable error and
\* MatchedTemplatesNames holds exactly the names the successful calls
\* returned; each collection is touched only by the holder of its lock.
C7_ConcurrentMatch ==
    /\ \A w \in Workers :
        /\ workers[w].pc \in {"uRead", "uWrite", "uUnlock"} => unMatchedLock = w
        /\ workers[w].pc \in {"mWrite", "mUnlock"} => matchedLock = w
    /\ AllDone =>
        /\ \A r \in MetricsResources :
              CountIn(UnMatchedCRs, r)
                = Cardinality({w \in Workers : workers[w].object = r /\ FailedHard(w)})
        /\ Len(UnMatchedCRs) = Cardinality({w \in Workers : FailedHard(w)})
        /\ MatchedTemplatesNames
                = {workers[w].res.temps[1].name : w \in {v \in Workers : Succeeded(v)}}

\* Two workers that both failed with a non-ignorable error and both appended.
C7_Witness ==
    /\ AllDone
    /\ \E w, v \in Workers :
        /\ w # v
        /\ FailedHard(w) /\ FailedHard(v)
        /\ workers[w].object # workers[v].object
        /\ Len(UnMatchedCRs) = 2

\* C8: a Match call records its terminal state once: a match adds the
\* template name and appends nothing; an UnknownMatch or MultipleMatches
\* outcome that is not ignorable appends the resource exactly once and adds
\* no name.
C8_RecordedOnce ==
    \A w \in Workers :
        workers[w].pc = "done" =>
            /\ Succeeded(w) =>
                /\ workers[w].appended = 0
                /\ workers[w].added = {workers[w].res.temps[1].name}
                /\ workers[w].res.temps[1].name \in MatchedTemplatesNames
            /\ FailedHard(w) =>
                /\ workers[w].appended = 1
                /\ workers[w].added = {}
                /\ CountIn(UnMatchedCRs, workers[w].object) >= 1

\* One call ended in a non-ignorable MultipleMatches, recorded once, and
\* another call matched.
C8_Witness ==
    \E w, v \in Workers :
        /\ workers[w].pc = "done" /\ workers[v].pc = "done"
        /\ workers[w].res.err.t = "MultipleMatches"
        /\ FailedHard(w)
        /\ workers[w].appended = 1
        /\ Succeeded(v)
        /\ workers[v].added # {}

\* C9: a Match whose wrapped error is made only of ignorable error types (one
\* such error, or a join of such errors) appends nothing to UnMatchedCRs; if
\* one constituent is of another type the resource is appended.
C9_IgnorableErrors ==
    \A w \in Workers :
        (workers[w].pc = "done" /\ workers[w].res.err # NoErr) =>
            /\ AllIgnorable(workers[w].res.err) =>
                (workers[w].appended = 0 /\ CountIn(UnMatchedCRs, workers[w].object) = 0)
            /\ ~AllIgnorable(workers[w].res.err) => workers[w].appended = 1

\* A join of two ignorable errors that was not recorded.
C9_Witness ==
    \E w \in Workers :
        /\ workers[w].pc = "done"
        /\ workers[w].res.err.t = "joinError"
        /\ Len(workers[w].res.err.errs) = 2
        /\ workers[w].res.err.errs[1].t # workers[w].res.err.errs[2].t
        /\ AllIgnorable(workers[w].res.err)
        /\ UnMatchedCRs = <<>>

\* C10: on a constructed chain a resource gets the same result whenever it
\* is matched, whatever was matched before it, and Match leaves the template
\* indexes as they were.
C10_Deterministic ==
    [][/\ correlator' = correlator
       /\ \A r \in Resources :
            results[r] # NoneYet => results'[r] = results[r]]_vars

\* A matched resource, then a resource that found no template, then the
\* first resource again.
C10_Witness ==
    /\ Len(matchLog) = 3
    /\ matchLog[1] = matchLog[3]
    /\ matchLog[2] # matchLog[1]
    /\ results[matchLog[1]].err = NoErr
    /\ results[matchLog[2]].err # NoErr

(***************************************************************************)
(* A GroupCorrelator built from declared field groups, matched against     *)
(* resources.                                                              *)
(***************************************************************************)
OutsideGrp == <<travVars, missVars, corrVars, pathVars, refVars, ovrVars, lateVars>>

\* A template whose kind is templated: only name and namespace are fixed.
tE == Template("e.yaml", Resource(V1, <<>>, <<"ns">>, <<"x">>))

\* Templates that share kind and name: tF repeats the metadata of tD, tG adds
\* a namespace to it.
tF == Template("f.yaml", Resource(V1, Pod, <<>>, <<"x">>))
tG == Template("g.yaml", Resource(V1, Pod, <<"ns">>, <<"x">>))

DeclaredGroups ==
    { <<fKind>>, <<fNamespace>>, <<fKind, fName>>, <<fNamespace, fName>>,
      <<fKind, fNamespace, fName>> }

\* Every declaration of up to MaxGroups distinct groups.
GroupDeclarations ==
    {q \in UNION {[1..n -> DeclaredGroups] : n \in 1..MaxGroups} :
        \A i, j \in 1..Len(q) : i # j => q[i] # q[j]}

GroupTemplateLists ==
    {<<tD, tE>>, <<tE, tD, tC>>, <<tA, tB, tD, tE>>, <<tD, tF, tA>>, <<tD, tG>>}

GrpInit ==
    /\ declGroups \in GroupDeclarations
    /\ declObjects \in GroupTemplateLists
    /\ group = NewGroupCorrelator(declGroups, declObjects)
    /\ hits = [r \in Resources |-> NoneYet]

\* GroupCorrelator.Match
GroupMatch(cr) ==
    /\ hits[cr] = NoneYet
    /\ hits' = [hits EXCEPT ![cr] = GroupCorrelatorMatch(group, cr)]
    /\ UNCHANGED <<declGroups, declObjects, group>>

InitGroup == GrpInit /\ TravIdle /\ MissIdle /\ CorrIdle /\ PathIdle /\ RefIdle /\ OvrIdle /\ LateIdle

NextGroup == (\E cr \in Resources : GroupMatch(cr)) /\ UNCHANGED OutsideGrp

SpecGroup == InitGroup /\ [][NextGroup]_vars

\* Position of a group in the declaration, 0 when it was not declared.
DeclaredAt(g) ==
    IF \E k \in 1..Len(declGroups) : declGroups[k] = g
    THEN CHOOSE k \in 1..Len(declGroups) : declGroups[k] = g
    ELSE 0

\* The field correlators of the built index that answer cr with one template.
UniqueHits(cr) ==
    {k \in 1..Len(group.fieldCorrelators) :
        LET r == FieldCorrelatorMatch(group.fieldCorrelators[k], cr) IN
        r.err = NoErr /\ Len(r.temps) = 1}

Arity(k) == Len(group.fieldCorrelators[k].Fields)

\* Among the unique hits, those of the largest arity.
TopHits(cr) == {k \in UniqueHits(cr) : \A j \in UniqueHits(cr) : Arity(k) >= Arity(j)}

\* C11: when equal-arity groups each give a unique hit for a resource (and no
\* group of larger arity does), Match returns the template of the group
\* declared first.
C11_TieBreak ==
    \A cr \in Resources :
        (hits[cr] # NoneYet /\ Cardinality(TopHits(cr)) >= 2) =>
            LET k == CHOOSE k \in TopHits(cr) :
                        \A j \in TopHits(cr) :
                            DeclaredAt(group.fieldCorrelators[k].Fields)
                                <= DeclaredAt(group.fieldCorrelators[j].Fields)
            IN hits[cr] = FieldCorrelatorMatch(group.fieldCorrelators[k], cr)

(***************************************************************************)
(* Path strings.  A string is the sequence of its characters; a name that  *)
(* holds no dot and no quote may stand as one element.                     *)
(***************************************************************************)
OutsidePath == <<travVars, missVars, corrVars, grpVars, refVars, ovrVars, lateVars>>

Dot == "."
DoubleQuote == "\""
\* the backtick character
Backtick == "backtick"

\* The characters that open and close a quoted block in the quotes pattern:
\* the double quote in parsing.go; in the PathPart version the bracketed
\* class double quote, bar, backtick (the bar inside the brackets is one
\* more character of the class).
\* Mutant: no character opens a quoted block.
QuoteClass_None == {}

QuoteClass == {DoubleQuote}
QuoteClassParts == {DoubleQuote, "|", Backtick}

\* regexp.FindAllStringSubmatch with an ungreedy body: from the left, a
\* character of the class up to the nearest later character of the class.
RECURSIVE FindAllFrom(_, _, _)
FindAllFrom(str, i, class) ==
    IF i > Len(str) THEN <<>>
    ELSE LET closers == {j \in (i + 1)..Len(str) : str[j] \in class} IN
         IF str[i] \in class /\ closers # {}
         THEN LET j == CHOOSE j \in closers : \A k \in closers : j <= k IN
              <<SubSeq(str, i, j)>> \o FindAllFrom(str, j + 1, class)
         ELSE FindAllFrom(str, i + 1, class)

FindAll(str, class) == FindAllFrom(str, 1, class)

\* strings.TrimLeft / strings.Trim with a one-character cutset
RECURSIVE TrimLeft(_, _)
TrimLeft(str, ch) ==
    IF str # <<>> /\ Head(str) = ch THEN TrimLeft(Tail1(str), ch) ELSE str

RECURSIVE TrimRight(_, _)
TrimRight(str, ch) ==
    IF str # <<>> /\ str[Len(str)] = ch
    THEN TrimRight(SubSeq(str, 1, Len(str) - 1), ch) ELSE str

Trim(str, ch) == TrimRight(TrimLeft(str, ch), ch)

\* strings.Replace(str, old, new, 1)
ReplaceFirst(str, old, new) ==
    LET at == {i \in 1..(Len(str) - Len(old) + 1) : SubSeq(str, i, i + Len(old) - 1) = old} IN
    IF at = {} THEN str
    ELSE LET i == CHOOSE i \in at : \A k \in at : i <= k IN
         SubSeq(str, 1, i - 1) \o new \o SubSeq(str, i + Len(old), Len(str))

\* strings.Split(str, "."): one more piece than there are dots
RECURSIVE SplitFrom(_, _, _)
SplitFrom(str, i, piece) ==
    IF i > Len(str) THEN <<piece>>
    ELSE IF str[i] = Dot THEN <<piece>> \o SplitFrom(str, i + 1, <<>>)
    ELSE SplitFrom(str, i + 1, Append(piece, str[i]))

Split(str) == SplitFrom(str, 1, <<>>)

\* fmt.Sprintf("cluster-compare-entry-%d", n)
PlaceholderNames ==
    << "cluster-compare-entry-0", "cluster-compare-entry-1", "cluster-compare-entry-2",
       "cluster-compare-entry-3", "cluster-compare-entry-4", "cluster-compare-entry-5" >>
Placeholder(n) == <<PlaceholderNames[n + 1]>>

\* step 2: each quoted block, in order, gives way to its placeholder
RECURSIVE ReplaceQuoted(_, _, _)
ReplaceQuoted(newPath, matches, n) ==
    IF n >= Len(matches) THEN newPath
    ELSE ReplaceQuoted(ReplaceFirst(newPath, matches[n + 1], Placeholder(n)), matches, n + 1)

\* the entry of the replaced map a piece names, -1 when it names none
ReplacedEntry(e, matches) ==
    IF \E n \in 0..(Len(matches) - 1) : e = Placeholder(n)
    THEN CHOOSE n \in 0..(Len(matches) - 1) : e = Placeholder(n)
    ELSE -1

SplitResult(ps, err) == [parts |-> ps, err |-> err]

\* splitFields of parsing.go: the parts are strings
splitFields(str) ==
    LET trimmed == TrimLeft(str, Dot)
        matches == FindAll(trimmed, QuoteClass)
    IN  IF Len(matches) = 0 THEN SplitResult(Split(trimmed), FALSE)
        ELSE LET newPath == ReplaceQuoted(trimmed, matches, 0) IN
             IF Len(FindAll(newPath, QuoteClass)) > 0
             THEN SplitResult(Split(newPath), TRUE)
             ELSE LET splitPath == Split(newPath) IN
                  SplitResult(
                      [i \in 1..Len(splitPath) |->
                          LET n == ReplacedEntry(splitPath[i], matches) IN
                          IF n >= 0 THEN Trim(matches[n + 1], DoubleQuote)
                          ELSE splitPath[i]],
                      FALSE)

\* regexp.Compile on the bodies the model draws: an opening parenthesis is
\* never closed there.
RegexCompiles(body) == \A k \in 1..Len(body) : body[k] # "("

PathPart(part, isRegex) == [part |-> part, regex |-> isRegex]

\* step 4 of the PathPart version: the parts so far, or the compile error
RECURSIVE PartsLoop(_, _, _)
PartsLoop(splitPath, matches, result) ==
    IF splitPath = <<>> THEN SplitResult(result, FALSE)
    ELSE LET e == Head(splitPath)
             n == ReplacedEntry(e, matches)
         IN  IF n < 0
             THEN PartsLoop(Tail1(splitPath), matches, Append(result, PathPart(e, FALSE)))
             ELSE LET x == matches[n + 1] IN
                  IF Head(x) = Backtick /\ x[Len(x)] = Backtick
                  THEN IF RegexCompiles(Trim(x, Backtick))
                       THEN PartsLoop(Tail1(splitPath), matches,
                                      Append(result, PathPart(Trim(x, Backtick), TRUE)))
                       ELSE SplitResult(result, TRUE)
                  ELSE PartsLoop(Tail1(splitPath), matches,
                                 Append(result, PathPart(Trim(x, DoubleQuote), FALSE)))

\* splitFields of the PathPart version: a part is a literal or a regex
splitFieldsParts(str) ==
    LET trimmed == TrimLeft(str, Dot)
        matches == FindAll(trimmed, QuoteClassParts)
    IN  IF Len(matches) = 0
        THEN SplitResult([i \in 1..Len(Split(trimmed)) |-> PathPart(Split(trimmed)[i], FALSE)],
                         FALSE)
        ELSE LET newPath == ReplaceQuoted(trimmed, matches, 0) IN
             IF Len(FindAll(newPath, QuoteClassParts)) > 0
             THEN SplitResult(<<>>, TRUE)
             ELSE PartsLoop(Split(newPath), matches, <<>>)

\* jsonPath
jsonPath(fs) == <<Dot>> \o Join(fs, <<Dot>>)

(***************************************************************************)
(* NewPath on path strings.                                                *)
(***************************************************************************)
PathChars == {Dot, DoubleQuote, Backtick, "|", "a", "("}

\* Every string of up to MaxChars characters.
CharStrings == UNION {[1..n -> PathChars] : n \in 0..MaxChars}

\* Paths of literal segments: plain names and double-quoted runs.
PlainSegments == {<<"a">>, <<"b">>}
QuotedSegments == {<<DoubleQuote, "a", Dot, "b", DoubleQuote>>, <<DoubleQuote, "a", DoubleQuote>>}
LiteralSegments == PlainSegments \cup QuotedSegments

LiteralPathsOver(segs) ==
    {Join(q, <<Dot>>) : q \in UNION {[1..n -> segs] : n \in 1..MaxPathLen}}

LiteralPaths == LiteralPathsOver(LiteralSegments)

\* with or without one leading dot
LiteralPathStrings == LiteralPaths \cup {<<Dot>> \o q : q \in LiteralPaths}

PathStrings == CharStrings \cup LiteralPathStrings

PathInit ==
    /\ pathStr \in PathStrings
    /\ splitRes = <<>>
    /\ ppc = "ready"

\* NewPath of parsing.go
NewPath ==
    /\ ppc = "ready"
    /\ splitRes' = splitFields(pathStr)
    /\ ppc' = "split"
    /\ UNCHANGED pathStr

\* NewPath of the PathPart version
NewPathParts ==
    /\ ppc = "ready"
    /\ splitRes' = splitFieldsParts(pathStr)
    /\ ppc' = "splitParts"
    /\ UNCHANGED pathStr

InitPath == PathInit /\ TravIdle /\ MissIdle /\ CorrIdle /\ GrpIdle /\ RefIdle /\ OvrIdle /\ LateIdle

NextPath == (NewPath \/ NewPathParts) /\ UNCHANGED OutsidePath

SpecPath == InitPath /\ [][NextPath]_vars

\* C14: a path string of literal segments (plain or double-quoted), parsed
\* and formatted back, is the string again, up to one leading dot.
C14_RoundTrip ==
    (ppc = "split" /\ pathStr \in LiteralPathStrings /\ ~splitRes.err) =>
        LET formatted == jsonPath(splitRes.parts) IN
        formatted = pathStr \/ formatted = <<Dot>> \o pathStr

\* The quote characters of a string, in order.
QuotesOf(str) == SelectSeq(str, LAMBDA c : c \in {DoubleQuote, Backtick})

\* A quote is left unmatched: an odd number of quote characters, or an
\* opening quote closed by a quote of the other kind.
UnmatchedQuote(str) ==
    LET q == QuotesOf(str) IN
    \/ Len(q) % 2 = 1
    \/ \E k \in 1..(Len(q) \div 2) : q[2 * k - 1] # q[2 * k]

\* The bodies of the backtick segments of a string whose quotes all match.
RECURSIVE BacktickBodies(_, _)
BacktickBodies(str, i) ==
    IF i > Len(str) THEN {}
    ELSE IF str[i] \in {DoubleQuote, Backtick}
         THEN LET j == CHOOSE j \in (i + 1)..Len(str) :
                          /\ str[j] = str[i]
                          /\ \A k \in (i + 1)..(j - 1) : str[k] # str[i]
              IN (IF str[i] = Backtick THEN {SubSeq(str, i + 1, j - 1)} ELSE {})
                    \cup BacktickBodies(str, j + 1)
         ELSE BacktickBodies(str, i + 1)

BadRegex(str) ==
    /\ ~UnmatchedQuote(str)
    /\ \E body \in BacktickBodies(str, 1) : ~RegexCompiles(body)

\* C15, second half: a backtick segment whose body is not a regular
\* expression is an error (the version of NewPath that knows regex parts).
C15_BadRegex ==
    (ppc = "splitParts" /\ BadRegex(pathStr)) => splitRes.err

\* C15, first half: a path string with an unmatched double quote or backtick
\* is an error.
C15_UnmatchedQuote ==
    (ppc \in {"split", "splitParts"} /\ UnmatchedQuote(pathStr)) => splitRes.err

\* C15: NewPath returns an error for every path string with an unmatched
\* quote and for every backtick segment whose body does not compile.
C15_BadQuoting == C15_UnmatchedQuote /\ C15_BadRegex

(***************************************************************************)
(* A parsed path removed from a document whose keys may hold dots.         *)
(***************************************************************************)
\* The string a part spells.
Spell(part) ==
    CASE part = <<"a">>           -> "a"
      [] part = <<"b">>           -> "b"
      [] part = <<"a", Dot, "b">> -> "a.b"
      [] OTHER                    -> "?"

SpellAll(ps) == [i \in 1..Len(ps) |-> Spell(ps[i])]

DottedKeys == {"a", "b", "a.b"}
InnerMaps == {MapDoc(f) : f \in UNION {[K -> Scalars] : K \in SUBSET DottedKeys}}
MiddleMaps ==
    {MapDoc(f) : f \in UNION {[K -> Scalars \cup InnerMaps] : K \in SUBSET {"a", "a.b"}}}
DottedDocs == MiddleMaps \cup {MapDoc([k \in {"a"} |-> d]) : d \in MiddleMaps}

QuotedInit ==
    /\ pathStr \in LiteralPaths
    /\ splitRes = <<>>
    /\ ppc = "ready"
    /\ obj \in DottedDocs
    /\ before = NilDoc
    /\ fields = <<>>
    /\ got = NoCall
    /\ toOmit = <<>>
    /\ first = NilDoc
    /\ tpc = "idle"

\* RemoveNestedField with the parts of the parsed path
RemoveParsed ==
    /\ ppc = "split"
    /\ ~splitRes.err
    /\ fields' = SpellAll(splitRes.parts)
    /\ before' = obj
    /\ obj' = RemoveNestedField(obj, SpellAll(splitRes.parts))
    /\ ppc' = "removed"
    /\ UNCHANGED <<pathStr, splitRes, got, toOmit, first, tpc>>

InitQuoted == QuotedInit /\ MissIdle /\ CorrIdle /\ GrpIdle /\ RefIdle /\ OvrIdle /\ LateIdle

NextQuoted ==
    /\ \/ NewPath /\ UNCHANGED travVars
       \/ RemoveParsed
    /\ UNCHANGED <<missVars, corrVars, grpVars, refVars, ovrVars, lateVars>>

SpecQuoted == InitQuoted /\ [][NextQuoted]_vars

\* A segment as written, without its enclosing double quotes.
Unquoted(seg) ==
    IF Head(seg) = DoubleQuote THEN SubSeq(seg, 2, Len(seg) - 1) ELSE seg

\* The value under a key path in a document of nested mappings.
RECURSIVE GetIn(_, _)
GetIn(d, ks) ==
    IF ks = <<>> THEN [found |-> TRUE, val |-> d]
    ELSE IF IsMap(d) /\ Head(ks) \in DOMAIN d.m THEN GetIn(d.m[Head(ks)], Tail1(ks))
    ELSE [found |-> FALSE, val |-> NilDoc]

\* C17: a path is split on the dots outside double quotes and a quoted run
\* is one segment with its quotes removed; removing the parsed path deletes
\* the addressed key and leaves every sibling key, at every level of the
\* path, as it was.
C17_QuotedSegments ==
    /\ ppc \in {"split", "removed"} =>
        \A q \in UNION {[1..n -> LiteralSegments] : n \in 1..MaxPathLen} :
            pathStr = Join(q, <<Dot>>) =>
                /\ ~splitRes.err
                /\ splitRes.parts = [i \in 1..Len(q) |-> Unquoted(q[i])]
    /\ (ppc = "removed" /\ GetIn(before, fields).found) =>
        /\ ~GetIn(obj, fields).found
        /\ \A m \in 0..(Len(fields) - 1) :
             \A k \in DOMAIN GetIn(before, SubSeq(fields, 1, m)).val.m :
                 k # fields[m + 1] =>
                     GetIn(obj, Append(SubSeq(fields, 1, m), k))
                       = GetIn(before, Append(SubSeq(fields, 1, m), k))

\* The path a."a.b" removed from a document that holds the dotted key and
\* a sibling under a.
C17_Witness ==
    /\ ppc = "removed"
    /\ pathStr = <<"a", Dot, DoubleQuote, "a", Dot, "b", DoubleQuote>>
    /\ splitRes.parts = << <<"a">>, <<"a", Dot, "b">> >>
    /\ before = MapDoc([k \in {"a"} |-> MapDoc([j \in {"a.b", "b"} |-> Scalar(1)])])
    /\ obj = MapDoc([k \in {"a"} |-> MapDoc([j \in {"b"} |-> Scalar(1)])])

(***************************************************************************)
(* getReference: the fieldsToOmit part of the reference load.              *)
(***************************************************************************)
OutsideRef == <<travVars, missVars, corrVars, grpVars, pathVars, ovrVars, lateVars>>

builtInPathsKey == "cluster-compare-built-in"

builtInPaths ==
    << <<"metadata", Dot, "resourceVersion">>,
       <<"metadata", Dot, "generation">>,
       <<"metadata", Dot, "uid">>,
       <<"metadata", Dot, "generateName">>,
       <<"metadata", Dot, "creationTimestamp">>,
       <<"metadata", Dot, "finalizers">>,
       <<DoubleQuote, "kubectl", Dot, "kubernetes", Dot, "io/last-applied-configuration",
         DoubleQuote>>,
       <<"metadata", Dot, "annotations", Dot,
         DoubleQuote, "kubectl", Dot, "kubernetes", Dot, "io/last-applied-configuration",
         DoubleQuote>>,
       <<"status">> >>

\* Mutant: an entry the user wrote under the built-in key is kept.
SeedBuiltIn_KeepUser(items) ==
    IF builtInPathsKey \in DOMAIN items THEN items
    ELSE MapPut(items, builtInPathsKey, builtInPaths)

\* Items[builtInPathsKey] = builtInPaths
SeedBuiltIn(items) == MapPut(items, builtInPathsKey, builtInPaths)

\* Mutant: an empty default key stays empty.
DefaultOrBuiltIn_Keep(key) == key

\* if DefaultKey == "" { DefaultKey = builtInPathsKey }
DefaultOrBuiltIn(key) == IF key = "" THEN builtInPathsKey ELSE key

\* NewPath of either version of the parser.
NewPathOf(version, str) ==
    IF version = "parts" THEN splitFieldsParts(str) ELSE splitFields(str)

\* Mutant: a path that fails to parse ends the list.
ProcessPaths_StopAtError(pathsArray, processedPaths, version) ==
    IF \E k \in 1..Len(pathsArray) : NewPathOf(version, pathsArray[k]).err
    THEN processedPaths
    ELSE [k \in 1..Len(pathsArray) |-> NewPathOf(version, pathsArray[k]).parts]

\* the inner loop of the processing: a path that fails to parse is skipped
RECURSIVE ProcessPaths(_, _, _)
ProcessPaths(pathsArray, processedPaths, version) ==
    IF pathsArray = <<>> THEN processedPaths
    ELSE LET np == NewPathOf(version, Head(pathsArray)) IN
         ProcessPaths(Tail1(pathsArray),
                      IF np.err THEN processedPaths ELSE Append(processedPaths, np.parts),
                      version)

\* Reference.ProcessFieldsToOmit: a key left with no path is skipped
ProcessFieldsToOmit(items) ==
    LET kept == {key \in DOMAIN items : Len(ProcessPaths(items[key], <<>>, "strings")) # 0} IN
    [key \in kept |-> ProcessPaths(items[key], <<>>, "strings")]

\* the processing loop of FieldsToOmit.process
ProcessItems(items) ==
    [key \in DOMAIN items |-> ProcessPaths(items[key], <<>>, "parts")]

\* The path strings a descriptor of the model may list.
OmitStrings ==
    { <<"a">>,
      <<"a", Dot, DoubleQuote, "a", Dot, "b", DoubleQuote>>,
      <<Backtick, "a", Backtick>>,
      <<Backtick, "(", Backtick>>,
      <<DoubleQuote, "a">> }

OmitStringLists == UNION {[1..n -> OmitStrings] : n \in 0..MaxPaths}

ItemKeys == {builtInPathsKey, "k1"}
DefaultKeys == {"", builtInPathsKey, "k1", "k2"}

UserItemMaps ==
    {f \in UNION {[K -> OmitStringLists] : K \in SUBSET ItemKeys} :
        builtInPathsKey \in DOMAIN f => Len(f[builtInPathsKey]) <= 1}

RefInit ==
    /\ yamlOk \in BOOLEAN
    /\ userItems \in UserItemMaps
    /\ userDefaultKey \in DefaultKeys
    /\ Items = <<>>
    /\ DefaultKey = ""
    /\ processedItems = <<>>
    /\ loadErr = FALSE
    /\ rpc = "ready"

\* parseYaml failed: getReference returns the error at once
ParseYamlFails ==
    /\ rpc = "ready"
    /\ ~yamlOk
    /\ loadErr' = TRUE
    /\ rpc' = "unparsed"
    /\ UNCHANGED <<yamlOk, userItems, userDefaultKey, Items, DefaultKey, processedItems>>

\* getReference of parsing.go
getReference ==
    /\ rpc = "ready"
    /\ yamlOk
    /\ Items' = SeedBuiltIn(userItems)
    /\ DefaultKey' = DefaultOrBuiltIn(userDefaultKey)
    /\ IF DefaultKey' \notin DOMAIN Items'
       THEN /\ loadErr' = TRUE
            /\ processedItems' = <<>>
            /\ rpc' = "failed"
       ELSE /\ loadErr' = FALSE
            /\ processedItems' = ProcessFieldsToOmit(Items')
            /\ rpc' = "loaded"
    /\ UNCHANGED <<yamlOk, userItems, userDefaultKey>>

\* getReference of the PathPart version: FieldsToOmit.process
process ==
    /\ rpc = "ready"
    /\ yamlOk
    /\ Items' = SeedBuiltIn(userItems)
    /\ DefaultKey' = DefaultOrBuiltIn(userDefaultKey)
    /\ IF DefaultKey' \notin DOMAIN Items'
       THEN /\ loadErr' = TRUE
            /\ processedItems' = <<>>
            /\ rpc' = "failed"
       ELSE /\ loadErr' = FALSE
            /\ processedItems' = ProcessItems(Items')
            /\ rpc' = "processed"
    /\ UNCHANGED <<yamlOk, userItems, userDefaultKey>>

InitRef == RefInit /\ TravIdle /\ MissIdle /\ CorrIdle /\ GrpIdle /\ PathIdle /\ OvrIdle /\ LateIdle

NextRef == (ParseYamlFails \/ getReference \/ process) /\ UNCHANGED OutsideRef

SpecRef == InitRef /\ [][NextRef]_vars

\* The load got past descriptor parsing and has returned.
PastParsing == rpc \in {"loaded", "processed", "failed"}

\* C12: after a load that got past descriptor parsing, the items under the
\* built-in key are the seeded list, whatever the descriptor wrote there.
C12_BuiltInSeed ==
    PastParsing =>
        /\ builtInPathsKey \in DOMAIN Items
        /\ Items[builtInPathsKey] = builtInPaths
        /\ \A key \in DOMAIN Items : key # builtInPathsKey =>
              key \in DOMAIN userItems /\ Items[key] = userItems[key]

\* The descriptor wrote its own entry under the built-in key and the load
\* replaced it.
C12_Witness ==
    /\ rpc \in {"loaded", "processed"}
    /\ builtInPathsKey \in DOMAIN userItems
    /\ userItems[builtInPathsKey] = << <<"a">> >>
    /\ Items[builtInPathsKey] = builtInPaths

\* C13: an empty defaultKey becomes the built-in key; the load succeeds if
\* and only if the items contain the default key.
C13_DefaultKey ==
    PastParsing =>
        /\ DefaultKey = (IF userDefaultKey = "" THEN builtInPathsKey ELSE userDefaultKey)
        /\ ~loadErr <=> DefaultKey \in DOMAIN Items

\* A default key that names no set made the load fail.
C13_Witness ==
    /\ rpc = "failed"
    /\ loadErr
    /\ userDefaultKey = "k2"
    /\ DefaultKey \notin DOMAIN Items

\* The paths of a list that parse, in their order.
WellFormed(pathsArray, version) ==
    LET ok == SelectSeq(pathsArray, LAMBDA str : ~NewPathOf(version, str).err) IN
    [k \in 1..Len(ok) |-> NewPathOf(version, ok[k]).parts]

ProcessedOf(key) ==
    IF key \in DOMAIN processedItems THEN processedItems[key] ELSE <<>>

\* C16: a path that fails to parse does not fail the load: when the default
\* key is among the items the load returns no error, and the processed
\* paths of each set are its well-formed paths in their original order.
C16_MalformedPath ==
    /\ (PastParsing /\ DefaultKey \in DOMAIN Items) => ~loadErr
    /\ rpc = "loaded" =>
        \A key \in DOMAIN Items : ProcessedOf(key) = WellFormed(Items[key], "strings")
    /\ rpc = "processed" =>
        \A key \in DOMAIN Items : ProcessedOf(key) = WellFormed(Items[key], "parts")

\* A set with a path that fails to parse between two that parse.
C16_Witness ==
    /\ rpc = "processed"
    /\ ~loadErr
    /\ "k1" \in DOMAIN Items
    /\ Items["k1"] = << <<Backtick, "(", Backtick>>, <<"a">> >>
    /\ processedItems["k1"] = << <<PathPart(<<"a">>, FALSE)>> >>

(***************************************************************************)
(* User overrides: applyPatch and UserOverride.Apply.                      *)
(***************************************************************************)
OutsideOvr == <<travVars, missVars, corrVars, grpVars, pathVars, refVars, lateVars>>

mergePatch == "mergepatch"
rfc6902 == "rfc6902"
gotemplate == "go-template"

UserOverride(type, patch) == [Type |-> type, Patch |-> patch]

\* The patch text, by what it holds: a JSON document, a JSON array of
\* operations, text that is not JSON, or a template.
MergeDoc(d) == [kind |-> "doc", doc |-> d]
OpList(ops) == [kind |-> "ops", ops |-> ops]
BadJSON == [kind |-> "badjson"]
\* a template with no action: it renders to the text of the override uo
ConstTemplate(uo) == [kind |-> "const", out |-> uo]
\* the template {{ .field }}: it renders to what the resource holds there
FieldTemplate(field) == [kind |-> "field", field |-> field]
\* a template that does not parse
BadTemplate == [kind |-> "badtemplate"]

\* A string value of a resource, by the name of its text.
StrVal(text) == [t |-> "str", s |-> text]

\* jsonpatch.MergePatch on documents (RFC 7386): a null deletes, a mapping
\* merges key by key, anything else replaces.
RECURSIVE MergeInto(_, _)
MergeInto(target, patchDoc) ==
    IF ~IsMap(patchDoc) THEN patchDoc
    ELSE LET t == IF IsMap(target) THEN target.m ELSE <<>>
             keep == {k \in (DOMAIN t) \cup (DOMAIN patchDoc.m) :
                        k \in DOMAIN patchDoc.m => patchDoc.m[k] # NilDoc}
         IN  MapDoc([k \in keep |->
                        IF k \in DOMAIN patchDoc.m
                        THEN MergeInto(IF k \in DOMAIN t THEN t[k] ELSE NilDoc, patchDoc.m[k])
                        ELSE t[k]])

PatchOk(d) == [ok |-> TRUE, doc |-> d]
PatchFailed == [ok |-> FALSE, doc |-> NilDoc]

\* One rfc6902 operation on a working copy of the document.
Op(op, path, value) == [op |-> op, path |-> path, value |-> value]

RECURSIVE PutAt(_, _, _, _)
PutAt(d, path, value, mustExist) ==
    IF ~IsMap(d) THEN PatchFailed
    ELSE IF Len(path) = 1
         THEN IF mustExist /\ path[1] \notin DOMAIN d.m THEN PatchFailed
              ELSE PatchOk(MapDoc(MapPut(d.m, path[1], value)))
         ELSE IF path[1] \notin DOMAIN d.m THEN PatchFailed
              ELSE LET r == PutAt(d.m[path[1]], Tail1(path), value, mustExist) IN
                   IF r.ok THEN PatchOk(MapDoc(MapPut(d.m, path[1], r.doc))) ELSE PatchFailed

RECURSIVE RemoveAt(_, _)
RemoveAt(d, path) ==
    IF ~IsMap(d) \/ path[1] \notin DOMAIN d.m THEN PatchFailed
    ELSE IF Len(path) = 1 THEN PatchOk(MapDoc(MapDelete(d.m, path[1])))
    ELSE LET r == RemoveAt(d.m[path[1]], Tail1(path)) IN
         IF r.ok THEN PatchOk(MapDoc(MapPut(d.m, path[1], r.doc))) ELSE PatchFailed

ApplyOp(d, o) ==
    CASE o.op = "add"     -> PutAt(d, o.path, o.value, FALSE)
      [] o.op = "replace" -> PutAt(d, o.path, o.value, TRUE)
      [] o.op = "remove"  -> RemoveAt(d, o.path)
      [] o.op = "test"    -> IF GetIn(d, o.path).found /\ GetIn(d, o.path).val = o.value
                             THEN PatchOk(d) ELSE PatchFailed
      [] OTHER            -> PatchFailed

\* Patch.Apply: the operations in order on a copy; the first that fails
\* fails the patch.
RECURSIVE ApplyOps(_, _)
ApplyOps(d, ops) ==
    IF ops = <<>> THEN PatchOk(d)
    ELSE LET r == ApplyOp(d, Head(ops)) IN
         IF r.ok THEN ApplyOps(r.doc, Tail1(ops)) ELSE PatchFailed

\* yaml.Unmarshal of a text into a UserOverride, for the texts a resource of
\* the model may hold.
Texts == {"loop", "loopA", "loopB", "mergeText", "junk"}

UnmarshalOk(uo) == [ok |-> TRUE, uo |-> uo]
UnmarshalFailed == [ok |-> FALSE, uo |-> <<>>]

Unmarshal(text) ==
    CASE text = "loop"      -> UnmarshalOk(UserOverride(gotemplate, FieldTemplate("a")))
      [] text = "loopA"     -> UnmarshalOk(UserOverride(gotemplate, FieldTemplate("b")))
      [] text = "loopB"     -> UnmarshalOk(UserOverride(gotemplate, FieldTemplate("a")))
      [] text = "mergeText" ->
            UnmarshalOk(UserOverride(mergePatch,
                                     MergeDoc(MapDoc([k \in {"b"} |-> Scalar(2)]))))
      [] OTHER              -> UnmarshalFailed

\* template.Parse, Execute on resource.Object and yaml.Unmarshal of the output
Render(tmpl, res) ==
    CASE tmpl.kind = "const" -> UnmarshalOk(tmpl.out)
      [] tmpl.kind = "field" ->
            IF IsMap(res) /\ tmpl.field \in DOMAIN res.m /\ res.m[tmpl.field].t = "str"
            THEN Unmarshal(res.m[tmpl.field].s)
            ELSE UnmarshalFailed
      [] OTHER -> UnmarshalFailed

\* What applyPatch hands back: the bytes and whether an error came with them.
Patched(d) == [err |-> FALSE, out |-> d]
Unpatched(data) == [err |-> TRUE, out |-> data]

\* case mergePatch
MergePatchCase(data, patch) ==
    IF patch.kind = "doc" THEN Patched(MergeInto(data, patch.doc)) ELSE Unpatched(data)

Rfc6902Case_FirstOnly(data, patch) ==
    IF patch.kind # "ops" THEN Unpatched(data)
    ELSE LET r == ApplyOps(data, IF patch.ops = <<>> THEN <<>> ELSE <<Head(patch.ops)>>) IN
         IF r.ok THEN Patched(r.doc) ELSE Unpatched(data)

\* case rfc6902: DecodePatch wants a JSON array of operations
Rfc6902Case(data, patch) ==
    IF patch.kind # "ops" THEN Unpatched(data)
    ELSE LET r == ApplyOps(data, patch.ops) IN
         IF r.ok THEN Patched(r.doc) ELSE Unpatched(data)

\* The resources an override is applied to: nested mappings of scalars, and
\* mappings that hold text.
TextResources ==
    { MapDoc([k \in {"a"} |-> StrVal("loop")]),
      MapDoc([k \in {"a", "b"} |-> IF k = "a" THEN StrVal("loopA") ELSE StrVal("loopB")]),
      MapDoc([k \in {"a"} |-> StrVal("mergeText")]),
      MapDoc([k \in {"a"} |-> StrVal("junk")]) }

OverriddenResources == MapsOver(Scalars \cup MapsOver(Scalars)) \cup TextResources

MergePatches ==
    { MergeDoc(MapDoc(<<>>)),
      MergeDoc(MapDoc([k \in {"a"} |-> NilDoc])),
      MergeDoc(MapDoc([k \in {"b"} |-> Scalar(2)])),
      MergeDoc(MapDoc([k \in {"a"} |-> MapDoc([j \in {"b"} |-> Scalar(2)])])),
      MergeDoc(MapDoc([k \in {"a"} |-> MapDoc([j \in {"a"} |-> NilDoc])])) }

OpPaths == {<<"a">>, <<"a", "b">>}

Operations ==
    {Op(o, p, Scalar(2)) : o \in {"add", "replace"}, p \in OpPaths}
        \cup {Op("remove", p, NilDoc) : p \in OpPaths}
        \cup {Op("test", p, Scalar(1)) : p \in OpPaths}

OpLists == {OpList(ops) : ops \in UNION {[1..n -> Operations] : n \in 0..MaxOps}}

\* Overrides without a template in them.
PlainOverrides ==
    {UserOverride(mergePatch, p) : p \in MergePatches \cup {BadJSON}}
        \cup {UserOverride(rfc6902, p) : p \in OpLists \cup {BadJSON, MergeDoc(MapDoc(<<>>))}}
        \cup {UserOverride("", MergeDoc(MapDoc(<<>>)))}

\* The overrides a template of the model renders to.
NestedPayloads ==
    { UserOverride(mergePatch, MergeDoc(MapDoc([k \in {"b"} |-> Scalar(2)]))),
      UserOverride(mergePatch, MergeDoc(MapDoc([k \in {"a"} |-> NilDoc]))),
      UserOverride(mergePatch, BadJSON),
      UserOverride(rfc6902, OpList(<<Op("remove", <<"a">>, NilDoc)>>)),
      UserOverride("", MergeDoc(MapDoc(<<>>))) }

RECURSIVE TemplateOverrides(_)
TemplateOverrides(depth) ==
    IF depth = 0
    THEN {UserOverride(gotemplate, t) : t \in {FieldTemplate("a"), FieldTemplate("b"), BadTemplate}}
    ELSE LET inner == TemplateOverrides(depth - 1) \cup (IF depth = 1 THEN NestedPayloads ELSE {})
         IN  TemplateOverrides(depth - 1)
                \cup {UserOverride(gotemplate, ConstTemplate(uo)) : uo \in inner}

Overrides == PlainOverrides \cup TemplateOverrides(MaxNest)

OvrInit ==
    /\ override \in Overrides
    /\ resource \in OverriddenResources
    /\ curPatch = <<>>
    /\ curType = ""
    /\ rendered = <<>>
    /\ modified = NilDoc
    /\ applyErr = FALSE
    /\ returned = NilDoc
    /\ opc = "ready"

\* Apply calls applyPatch(resource, o.Patch, o.Type)
ApplyCall ==
    /\ opc = "ready"
    /\ curPatch' = override.Patch
    /\ curType' = override.Type
    /\ opc' = "call"
    /\ UNCHANGED <<override, resource, rendered, modified, applyErr, returned>>
    /\ UNCHANGED OutsideOvr

ApplyMergePatch ==
    /\ opc = "call"
    /\ curType = mergePatch
    /\ LET r == MergePatchCase(resource, curPatch) IN
        /\ modified' = r.out
        /\ applyErr' = r.err
    /\ opc' = "back"
    /\ UNCHANGED <<override, resource, curPatch, curType, rendered, returned>>
    /\ UNCHANGED OutsideOvr

ApplyRfc6902 ==
    /\ opc = "call"
    /\ curType = rfc6902
    /\ LET r == Rfc6902Case(resource, curPatch) IN
        /\ modified' = r.out
        /\ applyErr' = r.err
    /\ opc' = "back"
    /\ UNCHANGED <<override, resource, curPatch, curType, rendered, returned>>
    /\ UNCHANGED OutsideOvr

\* case gotemplate, up to the unmarshalled UserOverride
ApplyGoTemplate ==
    /\ opc = "call"
    /\ curType = gotemplate
    /\ LET r == Render(curPatch, resource) IN
        IF r.ok
        THEN /\ rendered' = r.uo
             /\ opc' = "rendered"
             /\ UNCHANGED <<modified, applyErr>>
        ELSE /\ modified' = resource
             /\ applyErr' = TRUE
             /\ opc' = "back"
             /\ UNCHANGED rendered
    /\ UNCHANGED <<override, resource, curPatch, curType, returned>>
    /\ UNCHANGED OutsideOvr

Recurse_KeepType ==
    /\ opc = "rendered"
    /\ curPatch' = rendered.Patch
    /\ rendered' = <<>>
    /\ opc' = "call"
    /\ UNCHANGED <<override, resource, curType, modified, applyErr, returned>>
    /\ UNCHANGED OutsideOvr

\* return applyPatch(resource, []byte(uo.Patch), uo.Type)
Recurse ==
    /\ opc = "rendered"
    /\ curPatch' = rendered.Patch
    /\ curType' = rendered.Type
    /\ rendered' = <<>>
    /\ opc' = "call"
    /\ UNCHANGED <<override, resource, modified, applyErr, returned>>
    /\ UNCHANGED OutsideOvr

\* no case matches: unknown patch type
ApplyUnknown ==
    /\ opc = "call"
    /\ curType \notin {mergePatch, rfc6902, gotemplate}
    /\ modified' = resource
    /\ applyErr' = TRUE
    /\ opc' = "back"
    /\ UNCHANGED <<override, resource, curPatch, curType, rendered, returned>>
    /\ UNCHANGED OutsideOvr

\* Apply after applyPatch returned: the resource itself on an error, else the
\* patched bytes read back as a mapping.
ApplyReturn ==
    /\ opc = "back"
    /\ IF applyErr \/ ~IsMap(modified)
       THEN /\ returned' = resource
            /\ applyErr' = TRUE
       ELSE /\ returned' = modified
            /\ UNCHANGED applyErr
    /\ opc' = "done"
    /\ UNCHANGED <<override, resource, curPatch, curType, rendered, modified>>
    /\ UNCHANGED OutsideOvr

InitOverride == TravIdle /\ MissIdle /\ CorrIdle /\ GrpIdle /\ PathIdle /\ RefIdle /\ OvrInit /\ LateIdle

NextOverride ==
    \/ ApplyCall
    \/ ApplyMergePatch
    \/ ApplyRfc6902
    \/ ApplyGoTemplate
    \/ Recurse
    \/ ApplyUnknown
    \/ ApplyReturn

SpecOverride == InitOverride /\ [][NextOverride]_vars

\* A call of Apply that has started keeps running: nothing else is scheduled.
SpecOverrideFair == InitOverride /\ [][NextOverride]_vars /\ WF_vars(NextOverride)

\* C18: an rfc6902 override is all or nothing. When the patch does not decode
\* or one of its operations fails, Apply returns an error and the resource
\* it was given, with nothing of the earlier operations in it; when every
\* operation succeeds, Apply returns the document with all of them applied.
C18_Rfc6902Atomic ==
    (opc = "done" /\ override.Type = rfc6902) =>
        IF override.Patch.kind = "ops" /\ ApplyOps(resource, override.Patch.ops).ok
        THEN /\ ~applyErr
             /\ returned = ApplyOps(resource, override.Patch.ops).doc
        ELSE /\ applyErr
             /\ returned = resource

C18_Witness ==
    /\ opc = "done"
    /\ override.Type = rfc6902
    /\ override.Patch.kind = "ops"
    /\ Len(override.Patch.ops) >= 2
    /\ ApplyOp(resource, override.Patch.ops[1]).ok
    /\ ApplyOp(resource, override.Patch.ops[1]).doc # resource
    /\ ~ApplyOps(resource, override.Patch.ops).ok
    /\ applyErr
    /\ returned = resource

\* The override a go-template override renders to on the resource, when it
\* renders to one.
Payload == Render(override.Patch, resource)

\* C19: a go-template override whose rendered payload is a mergepatch
\* override gives the result, or the error, of that mergepatch override
\* applied to the same resource directly.
C19_Nesting ==
    (opc = "done" /\ override.Type = gotemplate /\ Payload.ok /\ Payload.uo.Type = mergePatch) =>
        LET direct == MergePatchCase(resource, Payload.uo.Patch) IN
            /\ applyErr = direct.err
            /\ returned = IF direct.err THEN resource ELSE direct.out

C19_Witness ==
    /\ opc = "done"
    /\ override.Type = gotemplate
    /\ Payload.ok
    /\ Payload.uo.Type = mergePatch
    /\ ~applyErr
    /\ returned # resource
    /\ returned = MergeInto(resource, Payload.uo.Patch.doc)

\* C20: applying an override terminates: the chain of rendered payloads
\* that applyPatch follows ends and Apply returns a result or an error.
C20_Terminates == <>(opc = "done")

(***************************************************************************)
(* RemoveNestedField on paths that address nothing.                        *)
(***************************************************************************)
\* C27: when the path does not address an existing field (its last key, or
\* a key on the way, is absent), RemoveNestedField returns the document it
\* was given: nothing else is deleted, also when a mapping on the path is
\* already empty.  Stated on the paths that walk mappings only.
C27_AbsentField ==
    (tpc = "removed" /\ ~ReachesSeq(before, fields) /\ Descend(before, fields) = NilDoc)
        => obj = before

\* The segment is no index of the sequence: not a number, negative, or past
\* the end.
NoIndexOf(seq, field) ==
    LET a == Atoi(field) IN a.err \/ a.n < 0 \/ a.n >= Len(seq.s)

\* The segments before position k walk mappings only and arrive at a sequence.
SeqNodeAt(d, fs, k) ==
    /\ ~ReachesSeq(d, SubSeq(fs, 1, k - 1))
    /\ IsSeq(Descend(d, SubSeq(fs, 1, k - 1)))

\* C28: at a sequence node, a segment that is no index of the sequence
\* leaves the document unchanged and the call does not fail, when the
\* segment is the last of the path ...
C28_LastSegment ==
    (/\ tpc = "removed"
     /\ SeqNodeAt(before, fields, Len(fields))
     /\ NoIndexOf(Descend(before, Front(fields, 1)), Last(fields)))
        => obj = before

\* ... and when it is an inner one.
C28_InnerSegment ==
    tpc = "removed" =>
        \A k \in 1..(Len(fields) - 1) :
            (/\ SeqNodeAt(before, fields, k)
             /\ NoIndexOf(Descend(before, SubSeq(fields, 1, k - 1)), fields[k]))
                => obj = before

C28_NoIndex == C28_LastSegment /\ C28_InnerSegment

(***************************************************************************)
(* ReferenceTemplate.FeildsToOmit: the omission paths active for a         *)
(* template.                                                               *)
(***************************************************************************)
\* m[key] of a Go map of slices: nil, an empty slice, when the key is absent
Lookup(m, key) == IF key \in DOMAIN m THEN m[key] ELSE <<>>

RECURSIVE RefsLoop(_, _, _)
RefsLoop(refs, processed, result) ==
    IF refs = <<>> THEN result
    ELSE RefsLoop(Tail1(refs), processed,
                  IF Head(refs) \in DOMAIN processed
                  THEN result \o processed[Head(refs)]
                  ELSE result)

FeildsToOmitOf_WithDefault(refs, processed, defaultKey) ==
    RefsLoop(refs, processed, Lookup(processed, defaultKey))

FeildsToOmitOf(refs, processed, defaultKey) ==
    IF Len(refs) = 0 THEN Lookup(processed, defaultKey)
    ELSE RefsLoop(refs, processed, <<>>)

RefNames == {builtInPathsKey, "k1", "k2"}

CfgInit ==
    /\ omitRefs \in UNION {[1..n -> RefNames] : n \in 0..MaxRefs}
    /\ activeOmit = <<>>

\* rf.FeildsToOmit(ref) on a loaded reference
FeildsToOmit ==
    /\ rpc \in {"loaded", "processed"}
    /\ activeOmit' = FeildsToOmitOf(omitRefs, processedItems, DefaultKey)
    /\ rpc' = "asked"
    /\ UNCHANGED <<yamlOk, userItems, userDefaultKey, Items, DefaultKey, processedItems,
                   loadErr, omitRefs>>

\* The variables outside the early areas and outside each late area.
EarlyVars == <<travVars, missVars, corrVars, grpVars, pathVars, refVars, ovrVars>>
EarlyIdle == TravIdle /\ MissIdle /\ CorrIdle /\ GrpIdle /\ PathIdle /\ RefIdle /\ OvrIdle

InitActive ==
    /\ RefInit /\ CfgInit
    /\ TravIdle /\ MissIdle /\ CorrIdle /\ GrpIdle /\ PathIdle /\ OvrIdle
    /\ ExIdle /\ KeyIdle /\ EdIdle

NextActive ==
    /\ \/ (ParseYamlFails \/ getReference \/ process) /\ UNCHANGED cfgVars
       \/ FeildsToOmit
    /\ UNCHANGED <<travVars, missVars, corrVars, grpVars, pathVars, ovrVars,
                   exVars, keyVars, edVars>>

SpecActive == InitActive /\ [][NextActive]_vars

\* The elements of a sequence.
Elements(q) == {q[k] : k \in 1..Len(q)}

\* C26: with no fieldsToOmitRefs the active set is the processed paths of
\* the default key; otherwise it is the union of the processed paths of the
\* named sets that exist, a name that does not exist adds nothing and
\* raises no error, and the default set is not added.
C26_ActiveSet ==
    rpc = "asked" =>
        IF omitRefs = <<>>
        THEN activeOmit = Lookup(processedItems, DefaultKey)
        ELSE Elements(activeOmit) =
                UNION {Elements(processedItems[key]) :
                          key \in Elements(omitRefs) \cap DOMAIN processedItems}

C26_Witness ==
    /\ rpc = "asked"
    /\ Len(omitRefs) = 2
    /\ omitRefs[1] \notin DOMAIN processedItems
    /\ omitRefs[2] \in DOMAIN processedItems
    /\ omitRefs[2] # DefaultKey
    /\ activeOmit = processedItems[omitRefs[2]]
    /\ activeOmit # <<>>
    /\ Lookup(processedItems, DefaultKey) # <<>>
    /\ Elements(Lookup(processedItems, DefaultKey)) \cap Elements(activeOmit) = {}

(***************************************************************************)
(* GroupCorrelator: the order of the search, first fit, ambiguous buckets. *)
(***************************************************************************)
\* What the field correlator at position k answers for a resource.
Answer(k, cr) == FieldCorrelatorMatch(group.fieldCorrelators[k], cr)

AmbiguousAt(cr) ==
    {k \in 1..Len(group.fieldCorrelators) : Answer(k, cr).err.t = "MultipleMatches"}

\* C23: Match goes through the field correlators from the most to the least
\* specific group and returns the first unique hit; an ambiguous bucket is
\* remembered while the search goes on, a group with no hash value or no
\* bucket is skipped; with no unique hit it returns MultipleMatches when an
\* ambiguous bucket was seen and UnknownMatch otherwise.
C23_GroupMatch ==
    /\ \A i, j \in 1..Len(group.fieldCorrelators) : i < j => Arity(i) >= Arity(j)
    /\ \A cr \in Resources :
        hits[cr] # NoneYet =>
            IF UniqueHits(cr) # {}
            THEN \E k \in UniqueHits(cr) :
                    /\ \A j \in UniqueHits(cr) : k <= j
                    /\ hits[cr] = Result(Answer(k, cr).temps, NoErr)
            ELSE IF AmbiguousAt(cr) # {}
                 THEN /\ hits[cr].temps = <<>>
                      /\ hits[cr].err.t = "MultipleMatches"
                      /\ hits[cr].err.Resource = cr
                 ELSE hits[cr] = Result(<<>>, UnknownMatch(cr))

\* An ambiguous bucket was passed before the unique hit that is returned,
\* and another resource got MultipleMatches.
C23_Witness ==
    /\ \E cr \in Resources :
        /\ hits[cr] # NoneYet
        /\ hits[cr].err = NoErr
        /\ \E k \in AmbiguousAt(cr) : \A j \in UniqueHits(cr) : k < j
    /\ \E cr \in Resources :
        /\ hits[cr] # NoneYet
        /\ hits[cr].err.t = "MultipleMatches"
        /\ \E k \in 1..Len(group.fieldCorrelators) : Answer(k, cr).err.t = "errorString"

\* The declared groups in the order NewGroupCorrelator goes through them.
SortedGroups == SortFieldGroups(declGroups)

\* The group gives the template's metadata a hash: every path of it holds a
\* non-empty string.
Hashable(g, temp) == ~GroupHashFunc(g, temp.md).err

FittingGroups(temp) == {k \in 1..Len(SortedGroups) : Hashable(SortedGroups[k], temp)}

\* The field correlators that hold the template in a bucket.
IndexedIn(temp) ==
    {k \in 1..Len(group.fieldCorrelators) :
        \E h \in DOMAIN group.fieldCorrelators[k].objects :
            \E n \in 1..Len(group.fieldCorrelators[k].objects[h]) :
                group.fieldCorrelators[k].objects[h][n] = temp}

\* C24: every template is indexed in at most one field correlator: that of
\* the first group, in sorted order, that gives its metadata a hash, under
\* that hash; a template no group fits is indexed nowhere, and a template
\* claimed by a group is in no later one.
C24_FirstFit ==
    \A n \in 1..Len(declObjects) :
        LET temp == declObjects[n] IN
        IF FittingGroups(temp) = {} THEN IndexedIn(temp) = {}
        ELSE LET g == SortedGroups[CHOOSE k \in FittingGroups(temp) :
                                      \A j \in FittingGroups(temp) : k <= j]
             IN  \E k \in 1..Len(group.fieldCorrelators) :
                    /\ IndexedIn(temp) = {k}
                    /\ group.fieldCorrelators[k].Fields = g
                    /\ temp \in Elements(group.fieldCorrelators[k].objects[
                                            GroupHashFunc(g, temp.md).hash])

\* A template that two declared groups fit, indexed by the first only,
\* beside a template that the first group left for a later one.
C24_Witness ==
    /\ Len(group.fieldCorrelators) >= 2
    /\ \E n \in 1..Len(declObjects) :
        /\ Cardinality(FittingGroups(declObjects[n])) >= 2
        /\ IndexedIn(declObjects[n]) = {1}
        /\ Hashable(group.fieldCorrelators[2].Fields, declObjects[n])
    /\ \E n \in 1..Len(declObjects) : IndexedIn(declObjects[n]) = {2}
    /\ \E cr \in Resources : hits[cr] # NoneYet /\ hits[cr].err = NoErr

\* The coarser group g tells the template apart for the resource: it gives
\* both the same hash and gives that hash to no other template.
Resolves(g, cr, temp) ==
    /\ Hashable(g, temp)
    /\ GroupHashFunc(g, cr) = GroupHashFunc(g, temp.md)
    /\ \A n \in 1..Len(declObjects) :
        (declObjects[n] # temp /\ Hashable(g, declObjects[n]))
            => GroupHashFunc(g, declObjects[n].md) # GroupHashFunc(g, temp.md)

\* The templates of the ambiguous bucket the resource falls in at position k.
BucketOf(k, cr) == Elements(Answer(k, cr).err.Matches)

\* C25 (as stated): the templates of an ambiguous bucket stay eligible
\* through coarser groups: a resource that falls in the bucket and that a
\* declared group of lower arity pairs with one template of the bucket
\* alone is matched.
C25_StayEligible ==
    \A cr \in Resources :
        hits[cr] # NoneYet =>
            \A k \in AmbiguousAt(cr) :
                \A temp \in BucketOf(k, cr) :
                    \A n \in 1..Len(declGroups) :
                        (Len(declGroups[n]) < Arity(k) /\ Resolves(declGroups[n], cr, temp))
                            => hits[cr].err = NoErr

\* All the buckets of the index, as pairs of position and hash.
Buckets ==
    {<<k, h>> \in (1..Len(group.fieldCorrelators)) \X
                  UNION {DOMAIN group.fieldCorrelators[j].objects :
                            j \in 1..Len(group.fieldCorrelators)} :
        h \in DOMAIN group.fieldCorrelators[k].objects}

BucketAt(b) == group.fieldCorrelators[b[1]].objects[b[2]]

\* C25 (amended): a bucket that holds more than one template is excluded
\* from match resolution and its templates are indexed in no other group:
\* Match never returns one of them, and a resource that falls in the bucket
\* gets a unique hit of another group or MultipleMatches.
C25_Excluded ==
    /\ \A b \in Buckets :
        Len(BucketAt(b)) > 1 =>
            \A n \in 1..Len(BucketAt(b)) :
                /\ IndexedIn(BucketAt(b)[n]) = {b[1]}
                /\ \A cr \in Resources :
                    hits[cr] # NoneYet => hits[cr].temps # <<BucketAt(b)[n]>>
    /\ \A cr \in Resources :
        (hits[cr] # NoneYet /\ AmbiguousAt(cr) # {}) =>
            \/ /\ hits[cr].err = NoErr
               /\ \E k \in UniqueHits(cr) : hits[cr].temps = Answer(k, cr).temps
            \/ /\ hits[cr].temps = <<>>
               /\ \E k \in AmbiguousAt(cr) : hits[cr].err = Answer(k, cr).err

\* A resource in an ambiguous bucket that a declared coarser group would
\* pair with one template alone, answered with MultipleMatches, and another
\* resource in an ambiguous bucket that a coarser group answers.
C25_Witness ==
    /\ \E cr \in Resources :
        /\ hits[cr] # NoneYet
        /\ hits[cr].err.t = "MultipleMatches"
        /\ \E k \in AmbiguousAt(cr) :
            \E temp \in BucketOf(k, cr) :
                \E n \in 1..Len(declGroups) :
                    Len(declGroups[n]) < Arity(k) /\ Resolves(declGroups[n], cr, temp)
    /\ \E cr \in Resources :
        /\ hits[cr] # NoneYet
        /\ hits[cr].err = NoErr
        /\ AmbiguousAt(cr) # {}

(***************************************************************************)
(* A MultiCorrelator over sub-correlators in any order.                    *)
(***************************************************************************)
\* The sub-correlators drawn: an exact-match table, a group index whose
\* only bucket is ambiguous, and a group index with unique buckets.
SubCorrelators ==
    { NewExactMatchCorrelator(
          [k \in {apiKindNamespaceName(Resource(V1, Svc, <<>>, <<"x">>))} |-> "a.yaml"],
          <<tA, tB>>),
      NewGroupCorrelator(<< <<fKind>> >>, <<tA, tB>>),
      NewGroupCorrelator(<< <<fKind, fName>> >>, <<tD, tC>>) }

MultiInit ==
    /\ correlator \in {MultiCorrelator(subs) :
                          subs \in UNION {[1..n -> SubCorrelators] : n \in 1..MaxSubs}}
    /\ errsToIgnore = {}
    /\ UnMatchedCRs = <<>>
    /\ unMatchedLock = 0
    /\ MatchedTemplatesNames = {}
    /\ matchedLock = 0
    /\ workers = <<>>
    /\ matchLog = <<>>
    /\ results = [r \in Resources |-> NoneYet]

InitMulti == MultiInit /\ TravIdle /\ MissIdle /\ ExtIdle

SpecMulti == InitMulti /\ [][NextCorrelate]_vars

\* What the sub-correlator at position k answers for a resource.
SubAnswer(k, cr) == SubMatch(correlator.correlators[k], cr)

\* The positions whose answer ends the search: a match, or an error that
\* is not an UnknownMatch.
Ending(cr) ==
    {k \in 1..Len(correlator.correlators) :
        \/ SubAnswer(k, cr).err = NoErr
        \/ ~ErrorsAs(SubAnswer(k, cr).err, "UnknownMatch")}

\* C22: Match returns the answer of the first sub-correlator, in order,
\* that matches or fails with an error other than UnknownMatch, and no
\* later one is tried; when every sub-correlator answers UnknownMatch it
\* returns no template and the join of those errors, in order.
C22_MultiMatch ==
    \A cr \in Resources :
        results[cr] # NoneYet =>
            IF Ending(cr) # {}
            THEN \E k \in Ending(cr) :
                    /\ \A j \in Ending(cr) : k <= j
                    /\ results[cr] = SubAnswer(k, cr)
            ELSE /\ results[cr].temps = <<>>
                 /\ results[cr].err =
                        Joined([k \in 1..Len(correlator.correlators) |-> SubAnswer(k, cr).err])
                 /\ \A k \in 1..Len(correlator.correlators) :
                        SubAnswer(k, cr).err.t = "UnknownMatch"

\* One resource is answered MultipleMatches by the second sub-correlator
\* although the third would match it, another falls through two misses to
\* a match, and a third misses everywhere.
C22_Witness ==
    /\ Len(correlator.correlators) = 3
    /\ \E cr \in Resources :
        /\ results[cr] # NoneYet
        /\ results[cr].err.t = "MultipleMatches"
        /\ SubAnswer(1, cr).err.t = "UnknownMatch"
        /\ SubAnswer(3, cr).err = NoErr
    /\ \E cr \in Resources :
        /\ results[cr] # NoneYet
        /\ results[cr].err.t = "joinError"
        /\ Len(results[cr].err.errs) = 3

(***************************************************************************)
(* An ExactMatchCorrelator loaded from a user mapping.                     *)
(***************************************************************************)
\* A second template of the name a.yaml, with other metadata.
tA2 == Template("a.yaml", Resource(V1, Svc, <<>>, <<"y">>))

ExactTemplateLists == {<<tA, tB>>, <<tC>>, <<tA, tB, tA2>>}

\* The keys a user mapping of the model may hold: two resource keys and a
\* key that no resource of the model has.
PairKeys ==
    { apiKindNamespaceName(Resource(V1, Svc, <<>>, <<"x">>)),
      apiKindNamespaceName(Resource(V1, Pod, <<"ns">>, <<"y">>)),
      <<"other">> }

PairNames == {"a.yaml", "b.yaml", "z.yaml"}

ExInit ==
    /\ userPairs \in UNION {[K -> PairNames] : K \in SUBSET PairKeys}
    /\ userTemplates \in ExactTemplateLists
    /\ exact = NewExactMatchCorrelator(userPairs, userTemplates)
    /\ exactHits = [r \in Resources |-> NoneYet]

\* ExactMatchCorrelator.Match on a correlator that loaded
ExactMatch(cr) ==
    /\ exact # LoadError
    /\ exactHits[cr] = NoneYet
    /\ exactHits' = [exactHits EXCEPT ![cr] = ExactMatchCorrelatorMatch(exact, cr)]
    /\ UNCHANGED <<userPairs, userTemplates, exact>>

InitExact == ExInit /\ EarlyIdle /\ CfgIdle /\ KeyIdle /\ EdIdle

NextExact ==
    (\E cr \in Resources : ExactMatch(cr)) /\ UNCHANGED <<EarlyVars, cfgVars, keyVars, edVars>>

SpecExact == InitExact /\ [][NextExact]_vars

\* The template of a name: the last of the list that has it.
Named(name) ==
    userTemplates[CHOOSE k \in 1..Len(userTemplates) :
                      /\ userTemplates[k].name = name
                      /\ \A j \in 1..Len(userTemplates) :
                            userTemplates[j].name = name => j <= k]

\* C21: the load fails, with no correlator, exactly when some pair names a
\* template that is not in the list; after a load that succeeded, Match
\* returns the named template alone for a resource whose key is mapped and
\* UnknownMatch for every other resource.
C21_ExactLoad ==
    /\ exact = LoadError <=>
            \E cr \in DOMAIN userPairs : userPairs[cr] \notin TemplateNames(userTemplates)
    /\ \A cr \in Resources :
        exactHits[cr] # NoneYet =>
            IF apiKindNamespaceName(cr) \in DOMAIN userPairs
            THEN exactHits[cr] = Result(<<Named(userPairs[apiKindNamespaceName(cr)])>>, NoErr)
            ELSE exactHits[cr] = Result(<<>>, UnknownMatch(cr))

C21_Witness ==
    /\ Cardinality(DOMAIN userPairs) >= 2
    /\ \E cr \in Resources :
        /\ exactHits[cr] # NoneYet
        /\ exactHits[cr].err = NoErr
        /\ exactHits[cr].temps[1].name = userPairs[apiKindNamespaceName(cr)]
    /\ \E cr \in Resources :
        /\ exactHits[cr] # NoneYet
        /\ exactHits[cr].err = UnknownMatch(cr)

(***************************************************************************)
(* The correlation keys of two resources.                                  *)
(***************************************************************************)
\* Resources whose names and namespaces may hold the separator character.
KeyNamespaces == {<<>>, <<"a">>, <<"a", "_", "b">>}
KeyNames == {<<"b">>, <<"c">>, <<"a", "_", "b">>, <<"b", "_", "c">>}
KeyResources == {Resource(V1, Pod, ns, n) : ns \in KeyNamespaces, n \in KeyNames}

HashGroups == {<<fKind, fName>>, <<fNamespace, fName>>, <<fKind, fNamespace, fName>>}

KeyInit ==
    /\ crLeft \in KeyResources
    /\ crRight \in KeyResources
    /\ hashFields \in HashGroups
    /\ keyLeft = <<>>
    /\ keyRight = <<>>
    /\ hashLeft = HashFailed
    /\ hashRight = HashFailed
    /\ kpc = "ready"

\* apiKindNamespaceName of both resources
KeyBoth ==
    /\ kpc = "ready"
    /\ keyLeft' = apiKindNamespaceName(crLeft)
    /\ keyRight' = apiKindNamespaceName(crRight)
    /\ kpc' = "keyed"
    /\ UNCHANGED <<crLeft, crRight, hashFields, hashLeft, hashRight>>

\* the hash function of the field group on both resources
HashBoth ==
    /\ kpc = "keyed"
    /\ hashLeft' = GroupHashFunc(hashFields, crLeft)
    /\ hashRight' = GroupHashFunc(hashFields, crRight)
    /\ kpc' = "hashed"
    /\ UNCHANGED <<crLeft, crRight, hashFields, keyLeft, keyRight>>

InitKeys == KeyInit /\ EarlyIdle /\ CfgIdle /\ ExIdle /\ EdIdle

NextKeys == (KeyBoth \/ HashBoth) /\ UNCHANGED <<EarlyVars, cfgVars, exVars, edVars>>

SpecKeys == InitKeys /\ [][NextKeys]_vars

\* The values of the group's fields in a resource.
ValuesOf(g, cr) == [k \in 1..Len(g) |-> NestedString(cr, g[k])]

\* C29: two resources that differ in apiVersion, kind, namespace or name
\* get different ExactMatch keys ...
C29_ExactKey ==
    (kpc \in {"keyed", "hashed"} /\ crLeft # crRight) => keyLeft # keyRight

\* ... and two different tuples of field values get different group hashes.
C29_GroupHash ==
    (/\ kpc = "hashed"
     /\ ~hashLeft.err /\ ~hashRight.err
     /\ ValuesOf(hashFields, crLeft) # ValuesOf(hashFields, crRight))
        => hashLeft.hash # hashRight.hash

C29_Injective == C29_ExactKey /\ C29_GroupHash

(***************************************************************************)
(* The patch editor: initialModel, setIndex and the key handlers.  An      *)
(* entry of data.loaded is held as whether its cluster and reference       *)
(* values decode; data.index counts from 0 as in the code.                 *)
(***************************************************************************)
\* d.loaded[d.index] is inside the slice
InRange(loaded, idx) == idx >= 0 /\ idx < Len(loaded)

\* updateDiff at an index: a read outside the slice panics, an entry whose
\* values do not decode gives an error, otherwise the diff is rebuilt.
updateDiff(loaded, idx) ==
    IF ~InRange(loaded, idx) THEN "panic"
    ELSE IF ~loaded[idx + 1] THEN "error"
    ELSE "ok"

Diff(idx) == [of |-> idx, modified |-> FALSE]

\* The loop of setIndex once data.index is set: the index it ends at, and
\* whether it ended in saveAndExit or in a panic.
RECURSIVE setIndexLoop(_, _)
setIndexLoop(loaded, idx) ==
    LET u == updateDiff(loaded, idx) IN
    IF u = "panic" THEN [index |-> idx, exit |-> FALSE, panic |-> TRUE]
    ELSE IF u = "ok" THEN [index |-> idx, exit |-> FALSE, panic |-> FALSE]
    ELSE IF idx + 1 >= Len(loaded) THEN [index |-> idx, exit |-> TRUE, panic |-> FALSE]
    ELSE setIndexLoop(loaded, idx + 1)

setIndex(loaded, current, idx) ==
    IF idx >= Len(loaded) THEN [index |-> current, exit |-> TRUE, panic |-> FALSE]
    ELSE setIndexLoop(loaded, idx)

EdInit ==
    /\ dataLoaded \in UNION {[1..n -> BOOLEAN] : n \in 0..MaxLoaded}
    /\ dataAccepted = <<>>
    /\ dataIndex = 0
    /\ dataDiff = <<>>
    /\ focused = FALSE
    /\ showPatch = FALSE
    /\ mErr = FALSE
    /\ epc = "start"

\* initialModel: the model is built and updateDiff reads the current entry
initialModel ==
    /\ epc = "start"
    /\ showPatch' = TRUE
    /\ LET u == updateDiff(dataLoaded, dataIndex) IN
        /\ epc' = CASE u = "panic" -> "panic" [] u = "error" -> "failed" [] OTHER -> "running"
        /\ dataDiff' = IF u = "ok" THEN Diff(dataIndex) ELSE dataDiff
    /\ UNCHANGED <<dataLoaded, dataAccepted, dataIndex, focused, mErr>>

\* saveAndExit: os.Create fails and the error is kept, or the accepted
\* patches are written and the program quits.
SaveAndExit(created) ==
    /\ mErr' = ~created
    /\ epc' = IF created THEN "quit" ELSE "running"

\* setIndex(data.index + 1) after an accept or a drop
Advance(created) ==
    LET r == setIndex(dataLoaded, dataIndex, dataIndex + 1) IN
    /\ dataIndex' = r.index
    /\ IF r.panic THEN epc' = "panic" /\ mErr' = FALSE /\ UNCHANGED dataDiff
       ELSE IF r.exit THEN SaveAndExit(created) /\ UNCHANGED dataDiff
       ELSE /\ dataDiff' = Diff(r.index)
            /\ mErr' = FALSE
            /\ epc' = "running"

Normal == epc = "running" /\ ~focused
Editing == epc = "running" /\ focused

KeyAccept ==
    /\ Normal
    /\ Len(dataAccepted) < MaxAccepted
    /\ dataAccepted' = Append(dataAccepted, dataDiff)
    /\ \E created \in BOOLEAN : Advance(created)
    /\ UNCHANGED <<dataLoaded, focused, showPatch>>

KeyReject ==
    /\ Normal
    /\ \E created \in BOOLEAN : Advance(created)
    /\ UNCHANGED <<dataLoaded, dataAccepted, focused, showPatch>>

KeyToggleShowPatch ==
    /\ Normal
    /\ showPatch' = ~showPatch
    /\ UNCHANGED <<dataLoaded, dataAccepted, dataIndex, dataDiff, focused, mErr, epc>>

KeyResetPatch ==
    /\ Normal
    /\ mErr' = FALSE
    /\ dataDiff' = [dataDiff EXCEPT !.modified = FALSE]
    /\ UNCHANGED <<dataLoaded, dataAccepted, dataIndex, focused, showPatch, epc>>

KeyEditPatch ==
    /\ Normal
    /\ focused' = TRUE
    /\ UNCHANGED <<dataLoaded, dataAccepted, dataIndex, dataDiff, showPatch, mErr, epc>>

KeySaveAndExit ==
    /\ Normal
    /\ \E created \in BOOLEAN : SaveAndExit(created)
    /\ UNCHANGED <<dataLoaded, dataAccepted, dataIndex, dataDiff, focused, showPatch>>

KeyQuit ==
    /\ epc = "running"
    /\ epc' = "quit"
    /\ UNCHANGED <<dataLoaded, dataAccepted, dataIndex, dataDiff, focused, showPatch, mErr>>

\* esc in edit mode: the text is a patch and the area is blurred, or it is
\* not and the error is kept
KeySubmitPatch ==
    /\ Editing
    /\ \E valid \in BOOLEAN :
        IF valid
        THEN /\ dataDiff' = [dataDiff EXCEPT !.modified = TRUE]
             /\ focused' = FALSE
             /\ UNCHANGED mErr
        ELSE /\ mErr' = TRUE
             /\ UNCHANGED <<dataDiff, focused>>
    /\ UNCHANGED <<dataLoaded, dataAccepted, dataIndex, showPatch, epc>>

KeyResetPatchEditMode ==
    /\ Editing
    /\ mErr' = FALSE
    /\ dataDiff' = [dataDiff EXCEPT !.modified = FALSE]
    /\ UNCHANGED <<dataLoaded, dataAccepted, dataIndex, focused, showPatch, epc>>

InitEditor == EdInit /\ EarlyIdle /\ CfgIdle /\ ExIdle /\ KeyIdle

NextEditor ==
    /\ \/ initialModel
       \/ KeyAccept
       \/ KeyReject
       \/ KeyToggleShowPatch
       \/ KeyResetPatch
       \/ KeyEditPatch
       \/ KeySaveAndExit
       \/ KeyQuit
       \/ KeySubmitPatch
       \/ KeyResetPatchEditMode
    /\ UNCHANGED <<EarlyVars, cfgVars, exVars, keyVars>>

SpecEditor == InitEditor /\ [][NextEditor]_vars

\* C30: in every reachable state of the editor, from initialModel through
\* any sequence of keys, loaded[index] is read only with
\* 0 <= index < len(loaded), also when the loaded list is empty: no read
\* falls outside the slice and the index of a running editor is inside it.
C30_IndexInRange ==
    /\ epc # "panic"
    /\ epc = "running" => InRange(dataLoaded, dataIndex)

=============================================================================
